---- MODULE Spec2Model ----
(***************************************************************************)
(* A model of the chemistry OCR pipeline: the model-call orchestrator       *)
(* (pipeline.py), the two DOCX renderers (pipeline.py's baseline writer and *)
(* markdown_converter.py's converter) and the request handler (main.py).    *)
(*                                                                         *)
(* A Python str is a sequence of characters, a character a one-character    *)
(* string.  Indices are 0-based as in the source (At, Slice).  A run is the *)
(* tuple <<text, is_sub, is_sup>>, a paragraph the record                   *)
(* [alignment, runs], a rendered document the sequence of its paragraphs.   *)
(***************************************************************************)
EXTENDS Integers, Sequences, FiniteSets, TLC

VARIABLES
    \* ---- one ViT/OCR request through ChemistryPipeline (Spec)
    pc,           \* position in process_image_bytes / process_image_bytes_vit
    mode,         \* "ViT" | "OCR": which of the two entry points runs
    data,         \* the image payload: "empty" | "bytes"
    model,        \* the configured vision model (selected_model)
    visionCalls,  \* models the vision backend was called with, in order
    ocrCalls,     \* number of OCR backend calls
    refinerCalls, \* number of refiner backend calls (call_once)
    rateLimited,  \* number of refiner calls that ended in a rate-limit error
    last_call,    \* how the most recent refiner call ended
    sleeps,       \* arguments of time.sleep, in order
    attempt,      \* loop variable of _refine_text_with_retry
    last_err,     \* last_err of _refine_text_with_retry
    draft_text,   \* draft_text of process_image_bytes_vit / markdown_text
    refined_text, \* refined_text of process_image_bytes_vit (OCR: markdown_text)
    cleaned,      \* text handed to _BaselineDocxWriter.create_docx_bytes
    outcome,      \* [raised, message, paragraphs]: what the call returned
    \* ---- the pure text functions applied to one input (SpecText)
    input,        \* the input string
    tpc,          \* "start" | "normalized" | "done"
    out,          \* [op, value]: the function applied last and its result
    \* ---- concurrent /api/process requests on one event loop (SpecServer)
    api_key,      \* the key in api_key_store: "" when none is stored
    hpc,          \* per request: position in process_images
    hattempt,     \* per request: attempt of its refiner retry loop
    hmode,        \* per request: mode of its form, "ViT" | "OCR"
    uploads,      \* per request: what the uploads not yet read will give
    pasted_images, \* per request: the pasted images not yet processed
    documents,    \* per request: number of documents generated
    response,     \* per request: HTTP status of its response, 0 before it
    loopOwner     \* request whose handler runs on the loop thread, 0 if idle

pipeVars == <<pc, mode, data, model, visionCalls, ocrCalls, refinerCalls,
              rateLimited, last_call, sleeps, attempt, last_err, draft_text,
              refined_text, cleaned, outcome>>
textVars == <<input, tpc, out>>
srvVars  == <<api_key, hpc, hattempt, hmode, uploads, pasted_images, documents,
              response, loopOwner>>
vars     == <<pipeVars, textVars, srvVars>>

-----------------------------------------------------------------------------
(* Characters and Python str primitives *)

\* a character outside ASCII, and a control character the language has no
\* escape for, is written by its code point: "U+00A0" is the one character
\* U+00A0
HexDigits == <<"0", "1", "2", "3", "4", "5", "6", "7", "8", "9",
               "A", "B", "C", "D", "E", "F">>
RECURSIVE Hex(_, _)
Hex(n, width) ==
    IF n = 0 /\ width <= 0 THEN ""
    ELSE Hex(n \div 16, width - 1) \o HexDigits[(n % 16) + 1]
\* the character with code point n
CodePoint(n) == "U+" \o Hex(n, 4)
\* the characters of the code point ranges <<first, last>>
Chars(ranges) == {CodePoint(n) : n \in UNION {r[1]..r[2] : r \in ranges}}

AsciiDigits == {"0", "1", "2", "3", "4", "5", "6", "7", "8", "9"}
\* the decimal digits of the other scripts (Unicode category Nd), as code
\* point ranges
OtherDecimalDigits ==
    Chars(
     {<<1632, 1641>>, <<1776, 1785>>, <<1984, 1993>>, <<2406, 2415>>, <<2534, 2543>>,
      <<2662, 2671>>, <<2790, 2799>>, <<2918, 2927>>, <<3046, 3055>>, <<3174, 3183>>,
      <<3302, 3311>>, <<3430, 3439>>, <<3558, 3567>>, <<3664, 3673>>, <<3792, 3801>>,
      <<3872, 3881>>, <<4160, 4169>>, <<4240, 4249>>, <<6112, 6121>>, <<6160, 6169>>,
      <<6470, 6479>>, <<6608, 6617>>, <<6784, 6793>>, <<6800, 6809>>, <<6992, 7001>>,
      <<7088, 7097>>, <<7232, 7241>>, <<7248, 7257>>, <<42528, 42537>>, <<43216, 43225>>,
      <<43264, 43273>>, <<43472, 43481>>, <<43504, 43513>>, <<43600, 43609>>, <<44016, 44025>>,
      <<65296, 65305>>, <<66720, 66729>>, <<68912, 68921>>, <<69734, 69743>>, <<69872, 69881>>,
      <<69942, 69951>>, <<70096, 70105>>, <<70384, 70393>>, <<70736, 70745>>, <<70864, 70873>>,
      <<71248, 71257>>, <<71360, 71369>>, <<71472, 71481>>, <<71904, 71913>>, <<72016, 72025>>,
      <<72784, 72793>>, <<73040, 73049>>, <<73120, 73129>>, <<92768, 92777>>, <<92864, 92873>>,
      <<93008, 93017>>, <<120782, 120831>>, <<123200, 123209>>, <<123632, 123641>>, <<125264, 125273>>,
      <<130032, 130041>>})
\* \d of the regular expressions on a str: every decimal digit
Digits == AsciiDigits \cup OtherDecimalDigits
\* the digits that are not decimal (superscript, subscript, circled ones),
\* as code point ranges
OtherDigits ==
    Chars(
     {<<178, 179>>, <<185, 185>>, <<4969, 4977>>, <<6618, 6618>>, <<8304, 8304>>,
      <<8308, 8313>>, <<8320, 8329>>, <<9312, 9320>>, <<9332, 9340>>, <<9352, 9360>>,
      <<9450, 9450>>, <<9461, 9469>>, <<9471, 9471>>, <<10102, 10110>>, <<10112, 10120>>,
      <<10122, 10130>>, <<68160, 68163>>, <<69216, 69224>>, <<69714, 69722>>, <<127232, 127242>>})
\* the characters c with c.isdigit()
isdigit == Digits \cup OtherDigits
Lower == {"a", "b", "c", "d", "e", "f", "g", "h", "i", "j", "k", "l", "m",
          "n", "o", "p", "q", "r", "s", "t", "u", "v", "w", "x", "y", "z"}
Upper == {"A", "B", "C", "D", "E", "F", "G", "H", "I", "J", "K", "L", "M",
          "N", "O", "P", "Q", "R", "S", "T", "U", "V", "W", "X", "Y", "Z"}
\* [A-Za-z] of the regular expressions
Letters == Lower \cup Upper
\* the letters outside ASCII, as code point ranges
OtherLetters ==
    Chars(
     {<<170, 170>>, <<181, 181>>, <<186, 186>>, <<192, 214>>, <<216, 246>>,
      <<248, 705>>, <<710, 721>>, <<736, 740>>, <<748, 748>>, <<750, 750>>,
      <<880, 884>>, <<886, 887>>, <<890, 893>>, <<895, 895>>, <<902, 902>>,
      <<904, 906>>, <<908, 908>>, <<910, 929>>, <<931, 1013>>, <<1015, 1153>>,
      <<1162, 1327>>, <<1329, 1366>>, <<1369, 1369>>, <<1376, 1416>>, <<1488, 1514>>,
      <<1519, 1522>>, <<1568, 1610>>, <<1646, 1647>>, <<1649, 1747>>, <<1749, 1749>>,
      <<1765, 1766>>, <<1774, 1775>>, <<1786, 1788>>, <<1791, 1791>>, <<1808, 1808>>,
      <<1810, 1839>>, <<1869, 1957>>, <<1969, 1969>>, <<1994, 2026>>, <<2036, 2037>>,
      <<2042, 2042>>, <<2048, 2069>>, <<2074, 2074>>, <<2084, 2084>>, <<2088, 2088>>,
      <<2112, 2136>>, <<2144, 2154>>, <<2160, 2183>>, <<2185, 2190>>, <<2208, 2249>>,
      <<2308, 2361>>, <<2365, 2365>>, <<2384, 2384>>, <<2392, 2401>>, <<2417, 2432>>,
      <<2437, 2444>>, <<2447, 2448>>, <<2451, 2472>>, <<2474, 2480>>, <<2482, 2482>>,
      <<2486, 2489>>, <<2493, 2493>>, <<2510, 2510>>, <<2524, 2525>>, <<2527, 2529>>,
      <<2544, 2545>>, <<2556, 2556>>, <<2565, 2570>>, <<2575, 2576>>, <<2579, 2600>>,
      <<2602, 2608>>, <<2610, 2611>>, <<2613, 2614>>, <<2616, 2617>>, <<2649, 2652>>,
      <<2654, 2654>>, <<2674, 2676>>, <<2693, 2701>>, <<2703, 2705>>, <<2707, 2728>>,
      <<2730, 2736>>, <<2738, 2739>>, <<2741, 2745>>, <<2749, 2749>>, <<2768, 2768>>,
      <<2784, 2785>>, <<2809, 2809>>, <<2821, 2828>>, <<2831, 2832>>, <<2835, 2856>>,
      <<2858, 2864>>, <<2866, 2867>>, <<2869, 2873>>, <<2877, 2877>>, <<2908, 2909>>,
      <<2911, 2913>>, <<2929, 2929>>, <<2947, 2947>>, <<2949, 2954>>, <<2958, 2960>>,
      <<2962, 2965>>, <<2969, 2970>>, <<2972, 2972>>, <<2974, 2975>>, <<2979, 2980>>,
      <<2984, 2986>>, <<2990, 3001>>, <<3024, 3024>>, <<3077, 3084>>, <<3086, 3088>>,
      <<3090, 3112>>, <<3114, 3129>>, <<3133, 3133>>, <<3160, 3162>>, <<3165, 3165>>,
      <<3168, 3169>>, <<3200, 3200>>, <<3205, 3212>>, <<3214, 3216>>, <<3218, 3240>>,
      <<3242, 3251>>, <<3253, 3257>>, <<3261, 3261>>, <<3293, 3294>>, <<3296, 3297>>,
      <<3313, 3314>>, <<3332, 3340>>, <<3342, 3344>>, <<3346, 3386>>, <<3389, 3389>>,
      <<3406, 3406>>, <<3412, 3414>>, <<3423, 3425>>, <<3450, 3455>>, <<3461, 3478>>,
      <<3482, 3505>>, <<3507, 3515>>, <<3517, 3517>>, <<3520, 3526>>, <<3585, 3632>>,
      <<3634, 3635>>, <<3648, 3654>>, <<3713, 3714>>, <<3716, 3716>>, <<3718, 3722>>,
      <<3724, 3747>>, <<3749, 3749>>, <<3751, 3760>>, <<3762, 3763>>, <<3773, 3773>>,
      <<3776, 3780>>, <<3782, 3782>>, <<3804, 3807>>, <<3840, 3840>>, <<3904, 3911>>,
      <<3913, 3948>>, <<3976, 3980>>, <<4096, 4138>>, <<4159, 4159>>, <<4176, 4181>>,
      <<4186, 4189>>, <<4193, 4193>>, <<4197, 4198>>, <<4206, 4208>>, <<4213, 4225>>,
      <<4238, 4238>>, <<4256, 4293>>, <<4295, 4295>>, <<4301, 4301>>, <<4304, 4346>>,
      <<4348, 4680>>, <<4682, 4685>>, <<4688, 4694>>, <<4696, 4696>>, <<4698, 4701>>,
      <<4704, 4744>>, <<4746, 4749>>, <<4752, 4784>>, <<4786, 4789>>, <<4792, 4798>>,
      <<4800, 4800>>, <<4802, 4805>>, <<4808, 4822>>, <<4824, 4880>>, <<4882, 4885>>,
      <<4888, 4954>>, <<4992, 5007>>, <<5024, 5109>>, <<5112, 5117>>, <<5121, 5740>>,
      <<5743, 5759>>, <<5761, 5786>>, <<5792, 5866>>, <<5873, 5880>>, <<5888, 5905>>,
      <<5919, 5937>>, <<5952, 5969>>, <<5984, 5996>>, <<5998, 6000>>, <<6016, 6067>>,
      <<6103, 6103>>, <<6108, 6108>>, <<6176, 6264>>, <<6272, 6276>>, <<6279, 6312>>,
      <<6314, 6314>>, <<6320, 6389>>, <<6400, 6430>>, <<6480, 6509>>, <<6512, 6516>>,
      <<6528, 6571>>, <<6576, 6601>>, <<6656, 6678>>, <<6688, 6740>>, <<6823, 6823>>,
      <<6917, 6963>>, <<6981, 6988>>, <<7043, 7072>>, <<7086, 7087>>, <<7098, 7141>>,
      <<7168, 7203>>, <<7245, 7247>>, <<7258, 7293>>, <<7296, 7304>>, <<7312, 7354>>,
      <<7357, 7359>>, <<7401, 7404>>, <<7406, 7411>>, <<7413, 7414>>, <<7418, 7418>>,
      <<7424, 7615>>, <<7680, 7957>>, <<7960, 7965>>, <<7968, 8005>>, <<8008, 8013>>,
      <<8016, 8023>>, <<8025, 8025>>, <<8027, 8027>>, <<8029, 8029>>, <<8031, 8061>>,
      <<8064, 8116>>, <<8118, 8124>>, <<8126, 8126>>, <<8130, 8132>>, <<8134, 8140>>,
      <<8144, 8147>>, <<8150, 8155>>, <<8160, 8172>>, <<8178, 8180>>, <<8182, 8188>>,
      <<8305, 8305>>, <<8319, 8319>>, <<8336, 8348>>, <<8450, 8450>>, <<8455, 8455>>,
      <<8458, 8467>>, <<8469, 8469>>, <<8473, 8477>>, <<8484, 8484>>, <<8486, 8486>>,
      <<8488, 8488>>, <<8490, 8493>>, <<8495, 8505>>, <<8508, 8511>>, <<8517, 8521>>,
      <<8526, 8526>>, <<8579, 8580>>, <<11264, 11492>>, <<11499, 11502>>, <<11506, 11507>>,
      <<11520, 11557>>, <<11559, 11559>>, <<11565, 11565>>, <<11568, 11623>>, <<11631, 11631>>,
      <<11648, 11670>>, <<11680, 11686>>, <<11688, 11694>>, <<11696, 11702>>, <<11704, 11710>>,
      <<11712, 11718>>, <<11720, 11726>>, <<11728, 11734>>, <<11736, 11742>>, <<11823, 11823>>,
      <<12293, 12294>>, <<12337, 12341>>, <<12347, 12348>>, <<12353, 12438>>, <<12445, 12447>>,
      <<12449, 12538>>, <<12540, 12543>>, <<12549, 12591>>, <<12593, 12686>>, <<12704, 12735>>,
      <<12784, 12799>>, <<13312, 19903>>, <<19968, 42124>>, <<42192, 42237>>, <<42240, 42508>>,
      <<42512, 42527>>, <<42538, 42539>>, <<42560, 42606>>, <<42623, 42653>>, <<42656, 42725>>,
      <<42775, 42783>>, <<42786, 42888>>, <<42891, 42954>>, <<42960, 42961>>, <<42963, 42963>>,
      <<42965, 42969>>, <<42994, 43009>>, <<43011, 43013>>, <<43015, 43018>>, <<43020, 43042>>,
      <<43072, 43123>>, <<43138, 43187>>, <<43250, 43255>>, <<43259, 43259>>, <<43261, 43262>>,
      <<43274, 43301>>, <<43312, 43334>>, <<43360, 43388>>, <<43396, 43442>>, <<43471, 43471>>,
      <<43488, 43492>>, <<43494, 43503>>, <<43514, 43518>>, <<43520, 43560>>, <<43584, 43586>>,
      <<43588, 43595>>, <<43616, 43638>>, <<43642, 43642>>, <<43646, 43695>>, <<43697, 43697>>,
      <<43701, 43702>>, <<43705, 43709>>, <<43712, 43712>>, <<43714, 43714>>, <<43739, 43741>>,
      <<43744, 43754>>, <<43762, 43764>>, <<43777, 43782>>, <<43785, 43790>>, <<43793, 43798>>,
      <<43808, 43814>>, <<43816, 43822>>, <<43824, 43866>>, <<43868, 43881>>, <<43888, 44002>>,
      <<44032, 55203>>, <<55216, 55238>>, <<55243, 55291>>, <<63744, 64109>>, <<64112, 64217>>,
      <<64256, 64262>>, <<64275, 64279>>, <<64285, 64285>>, <<64287, 64296>>, <<64298, 64310>>,
      <<64312, 64316>>, <<64318, 64318>>, <<64320, 64321>>, <<64323, 64324>>, <<64326, 64433>>,
      <<64467, 64829>>, <<64848, 64911>>, <<64914, 64967>>, <<65008, 65019>>, <<65136, 65140>>,
      <<65142, 65276>>, <<65313, 65338>>, <<65345, 65370>>, <<65382, 65470>>, <<65474, 65479>>,
      <<65482, 65487>>, <<65490, 65495>>, <<65498, 65500>>, <<65536, 65547>>, <<65549, 65574>>,
      <<65576, 65594>>, <<65596, 65597>>, <<65599, 65613>>, <<65616, 65629>>, <<65664, 65786>>,
      <<66176, 66204>>, <<66208, 66256>>, <<66304, 66335>>, <<66349, 66368>>, <<66370, 66377>>,
      <<66384, 66421>>, <<66432, 66461>>, <<66464, 66499>>, <<66504, 66511>>, <<66560, 66717>>,
      <<66736, 66771>>, <<66776, 66811>>, <<66816, 66855>>, <<66864, 66915>>, <<66928, 66938>>,
      <<66940, 66954>>, <<66956, 66962>>, <<66964, 66965>>, <<66967, 66977>>, <<66979, 66993>>,
      <<66995, 67001>>, <<67003, 67004>>, <<67072, 67382>>, <<67392, 67413>>, <<67424, 67431>>,
      <<67456, 67461>>, <<67463, 67504>>, <<67506, 67514>>, <<67584, 67589>>, <<67592, 67592>>,
      <<67594, 67637>>, <<67639, 67640>>, <<67644, 67644>>, <<67647, 67669>>, <<67680, 67702>>,
      <<67712, 67742>>, <<67808, 67826>>, <<67828, 67829>>, <<67840, 67861>>, <<67872, 67897>>,
      <<67968, 68023>>, <<68030, 68031>>, <<68096, 68096>>, <<68112, 68115>>, <<68117, 68119>>,
      <<68121, 68149>>, <<68192, 68220>>, <<68224, 68252>>, <<68288, 68295>>, <<68297, 68324>>,
      <<68352, 68405>>, <<68416, 68437>>, <<68448, 68466>>, <<68480, 68497>>, <<68608, 68680>>,
      <<68736, 68786>>, <<68800, 68850>>, <<68864, 68899>>, <<69248, 69289>>, <<69296, 69297>>,
      <<69376, 69404>>, <<69415, 69415>>, <<69424, 69445>>, <<69488, 69505>>, <<69552, 69572>>,
      <<69600, 69622>>, <<69635, 69687>>, <<69745, 69746>>, <<69749, 69749>>, <<69763, 69807>>,
      <<69840, 69864>>, <<69891, 69926>>, <<69956, 69956>>, <<69959, 69959>>, <<69968, 70002>>,
      <<70006, 70006>>, <<70019, 70066>>, <<70081, 70084>>, <<70106, 70106>>, <<70108, 70108>>,
      <<70144, 70161>>, <<70163, 70187>>, <<70272, 70278>>, <<70280, 70280>>, <<70282, 70285>>,
      <<70287, 70301>>, <<70303, 70312>>, <<70320, 70366>>, <<70405, 70412>>, <<70415, 70416>>,
      <<70419, 70440>>, <<70442, 70448>>, <<70450, 70451>>, <<70453, 70457>>, <<70461, 70461>>,
      <<70480, 70480>>, <<70493, 70497>>, <<70656, 70708>>, <<70727, 70730>>, <<70751, 70753>>,
      <<70784, 70831>>, <<70852, 70853>>, <<70855, 70855>>, <<71040, 71086>>, <<71128, 71131>>,
      <<71168, 71215>>, <<71236, 71236>>, <<71296, 71338>>, <<71352, 71352>>, <<71424, 71450>>,
      <<71488, 71494>>, <<71680, 71723>>, <<71840, 71903>>, <<71935, 71942>>, <<71945, 71945>>,
      <<71948, 71955>>, <<71957, 71958>>, <<71960, 71983>>, <<71999, 71999>>, <<72001, 72001>>,
      <<72096, 72103>>, <<72106, 72144>>, <<72161, 72161>>, <<72163, 72163>>, <<72192, 72192>>,
      <<72203, 72242>>, <<72250, 72250>>, <<72272, 72272>>, <<72284, 72329>>, <<72349, 72349>>,
      <<72368, 72440>>, <<72704, 72712>>, <<72714, 72750>>, <<72768, 72768>>, <<72818, 72847>>,
      <<72960, 72966>>, <<72968, 72969>>, <<72971, 73008>>, <<73030, 73030>>, <<73056, 73061>>,
      <<73063, 73064>>, <<73066, 73097>>, <<73112, 73112>>, <<73440, 73458>>, <<73648, 73648>>,
      <<73728, 74649>>, <<74880, 75075>>, <<77712, 77808>>, <<77824, 78894>>, <<82944, 83526>>,
      <<92160, 92728>>, <<92736, 92766>>, <<92784, 92862>>, <<92880, 92909>>, <<92928, 92975>>,
      <<92992, 92995>>, <<93027, 93047>>, <<93053, 93071>>, <<93760, 93823>>, <<93952, 94026>>,
      <<94032, 94032>>, <<94099, 94111>>, <<94176, 94177>>, <<94179, 94179>>, <<94208, 100343>>,
      <<100352, 101589>>, <<101632, 101640>>, <<110576, 110579>>, <<110581, 110587>>, <<110589, 110590>>,
      <<110592, 110882>>, <<110928, 110930>>, <<110948, 110951>>, <<110960, 111355>>, <<113664, 113770>>,
      <<113776, 113788>>, <<113792, 113800>>, <<113808, 113817>>, <<119808, 119892>>, <<119894, 119964>>,
      <<119966, 119967>>, <<119970, 119970>>, <<119973, 119974>>, <<119977, 119980>>, <<119982, 119993>>,
      <<119995, 119995>>, <<119997, 120003>>, <<120005, 120069>>, <<120071, 120074>>, <<120077, 120084>>,
      <<120086, 120092>>, <<120094, 120121>>, <<120123, 120126>>, <<120128, 120132>>, <<120134, 120134>>,
      <<120138, 120144>>, <<120146, 120485>>, <<120488, 120512>>, <<120514, 120538>>, <<120540, 120570>>,
      <<120572, 120596>>, <<120598, 120628>>, <<120630, 120654>>, <<120656, 120686>>, <<120688, 120712>>,
      <<120714, 120744>>, <<120746, 120770>>, <<120772, 120779>>, <<122624, 122654>>, <<123136, 123180>>,
      <<123191, 123197>>, <<123214, 123214>>, <<123536, 123565>>, <<123584, 123627>>, <<124896, 124902>>,
      <<124904, 124907>>, <<124909, 124910>>, <<124912, 124926>>, <<124928, 125124>>, <<125184, 125251>>,
      <<125259, 125259>>, <<126464, 126467>>, <<126469, 126495>>, <<126497, 126498>>, <<126500, 126500>>,
      <<126503, 126503>>, <<126505, 126514>>, <<126516, 126519>>, <<126521, 126521>>, <<126523, 126523>>,
      <<126530, 126530>>, <<126535, 126535>>, <<126537, 126537>>, <<126539, 126539>>, <<126541, 126543>>,
      <<126545, 126546>>, <<126548, 126548>>, <<126551, 126551>>, <<126553, 126553>>, <<126555, 126555>>,
      <<126557, 126557>>, <<126559, 126559>>, <<126561, 126562>>, <<126564, 126564>>, <<126567, 126570>>,
      <<126572, 126578>>, <<126580, 126583>>, <<126585, 126588>>, <<126590, 126590>>, <<126592, 126601>>,
      <<126603, 126619>>, <<126625, 126627>>, <<126629, 126633>>, <<126635, 126651>>, <<131072, 173791>>,
      <<173824, 177976>>, <<177984, 178205>>, <<178208, 183969>>, <<183984, 191456>>, <<194560, 195101>>,
      <<196608, 201546>>})
\* the characters c with c.isalpha()
isalpha == Letters \cup OtherLetters
\* \s of the regular expressions on a str and the characters str.strip()
\* removes (c.isspace()): space, tab, newline, CR, FF, VT, the separators
\* U+001C to U+001F, NEL, the no-break space and the Unicode spaces
Whitespace ==
    {" ", "\t", "\n", "\r", "\f",
     "U+000B", "U+001C", "U+001D", "U+001E", "U+001F", "U+0085", "U+00A0", "U+1680",
     "U+2000", "U+2001", "U+2002", "U+2003", "U+2004", "U+2005", "U+2006", "U+2007",
     "U+2008", "U+2009", "U+200A", "U+2028", "U+2029", "U+202F", "U+205F", "U+3000"}
\* U+00B1 and U+2213 of the superscript sign class
PlusMinus == "U+00B1"
MinusPlus == "U+2213"
SignChars == {"+", "-", PlusMinus, MinusPlus}

At(s, i) == s[i + 1]

\* s[a:b] for 0 <= a
Slice(s, a, b) == IF b <= a THEN <<>> ELSE SubSeq(s, a + 1, IF b > Len(s) THEN Len(s) ELSE b)

\* s.startswith(p) at offset i
StartsAt(s, i, p) ==
    /\ i + Len(p) <= Len(s)
    /\ \A k \in 1..Len(p) : s[i + k] = p[k]

RECURSIVE Concat(_)
Concat(ss) == IF ss = <<>> THEN <<>> ELSE Head(ss) \o Concat(Tail(ss))

\* number of leading characters of s[i:] that lie in class
RECURSIVE SpanLen(_, _, _)
SpanLen(s, i, class) ==
    IF i < Len(s) /\ At(s, i) \in class THEN 1 + SpanLen(s, i + 1, class) ELSE 0

\* number of trailing characters of s that lie in class
RECURSIVE TrailLen(_, _)
TrailLen(s, class) ==
    IF s # <<>> /\ s[Len(s)] \in class THEN 1 + TrailLen(SubSeq(s, 1, Len(s) - 1), class) ELSE 0

\* str.strip()
Strip(s) ==
    LET a == SpanLen(s, 0, Whitespace)
    IN  IF a = Len(s) THEN <<>> ELSE Slice(s, a, Len(s) - TrailLen(s, Whitespace))

\* str.split(sep) for a one-character separator: always at least one field
RECURSIVE SplitFrom(_, _, _, _)
SplitFrom(s, i, sep, cur) ==
    IF i >= Len(s) THEN <<cur>>
    ELSE IF At(s, i) = sep THEN <<cur>> \o SplitFrom(s, i + 1, sep, <<>>)
    ELSE SplitFrom(s, i + 1, sep, Append(cur, At(s, i)))

Split(s, sep) == SplitFrom(s, 0, sep, <<>>)

\* first index >= i where p occurs in s, or -1 (str.find)
RECURSIVE Find(_, _, _)
Find(s, p, i) ==
    IF i + Len(p) > Len(s) THEN -1
    ELSE IF StartsAt(s, i, p) THEN i
    ELSE Find(s, p, i + 1)

-----------------------------------------------------------------------------
(* pipeline.py: _BaselineDocxWriter *)

NoRaise == "none"

RECURSIVE FindMatchingBraceFrom(_, _, _)
FindMatchingBraceFrom(s, i, depth) ==
    IF i >= Len(s) THEN -1
    ELSE IF At(s, i) = "{" THEN FindMatchingBraceFrom(s, i + 1, depth + 1)
    ELSE IF At(s, i) = "}" THEN
        IF depth - 1 = 0 THEN i ELSE FindMatchingBraceFrom(s, i + 1, depth - 1)
    ELSE FindMatchingBraceFrom(s, i + 1, depth)

_find_matching_brace(s, start) == FindMatchingBraceFrom(s, start, 0)

\* _add_run with `if subscript:` lost: every run is made a subscript
_add_run_always_sub(par, text, superscript, subscript) ==
    IF text = <<>> THEN par ELSE Append(par, <<text, TRUE, superscript>>)

\* _add_run with the two keyword arguments taken for each other
_add_run_swapped(par, text, superscript, subscript) ==
    IF text = <<>> THEN par ELSE Append(par, <<text, superscript, subscript>>)

\* _add_run: an empty text adds no run
_add_run(par, text, superscript, subscript) ==
    IF text = <<>> THEN par ELSE Append(par, <<text, subscript, superscript>>)

\* flush() of _add_parsed_line
flush(par, normal) ==
    IF normal # <<>> THEN _add_run(par, normal, FALSE, FALSE) ELSE par

\* length of the match of [+\-±∓]?\d+ at line[i:], -1 when it does not match
MatchSignedDigits(line, i) ==
    LET sg == IF i < Len(line) /\ At(line, i) \in SignChars THEN 1 ELSE 0
        d1 == SpanLen(line, i + sg, Digits)
        d0 == SpanLen(line, i, Digits)
    IN  IF sg = 1 /\ d1 > 0 THEN 1 + d1
        ELSE IF d0 > 0 THEN d0
        ELSE -1

\* length of the match of \d+ at line[i:], -1 when it does not match
MatchDigits(line, i) ==
    LET d == SpanLen(line, i, Digits) IN IF d > 0 THEN d ELSE -1

\* the while loop of _add_parsed_line; line[i] past the end raises IndexError
\* and leaves in the paragraph the runs added before it
RECURSIVE AddParsedLineLoop(_, _, _, _)
AddParsedLineLoop(line, i, normal, par) ==
    LET n == Len(line) IN
    IF i >= n THEN [raised |-> NoRaise, runs |-> flush(par, normal)]
    ELSE
      LET ch == At(line, i) IN
      IF ch \in {"^", "_"} THEN
        LET is_super == (ch = "^")
            i1 == i + 1
        IN
        IF i1 < n /\ At(line, i1) = "{" THEN
          LET j == _find_matching_brace(line, i1) IN
          IF j = -1 THEN AddParsedLineLoop(line, i1, Append(normal, ch), par)
          ELSE AddParsedLineLoop(line, j + 1, <<>>,
                   _add_run(flush(par, normal), Slice(line, i1 + 1, j), is_super, ~is_super))
        ELSE
          LET m == IF is_super THEN MatchSignedDigits(line, i1) ELSE MatchDigits(line, i1) IN
          IF m # -1 THEN
            AddParsedLineLoop(line, i1 + m, <<>>,
                _add_run(flush(par, normal), Slice(line, i1, i1 + m), is_super, ~is_super))
          ELSE IF i1 >= n THEN [raised |-> "IndexError", runs |-> par]
          ELSE
            AddParsedLineLoop(line, i1 + 1, <<>>,
                _add_run(flush(par, normal), <<At(line, i1)>>, is_super, ~is_super))
      ELSE AddParsedLineLoop(line, i + 1, Append(normal, ch), par)

_add_parsed_line(line) == AddParsedLineLoop(line, 0, <<>>, <<>>)

\* the paragraphs of create_docx_bytes: one per line of text.split('\n')
RECURSIVE DocxLines(_, _)
DocxLines(lines, doc) ==
    IF lines = <<>> THEN [raised |-> NoRaise, message |-> "", paragraphs |-> doc]
    ELSE
      LET raw_line == Head(lines)
          r == IF raw_line # <<>> THEN _add_parsed_line(raw_line)
               ELSE [raised |-> NoRaise, runs |-> <<>>]
      IN  IF r.raised # NoRaise
          THEN [raised |-> r.raised, message |-> "string index out of range", paragraphs |-> <<>>]
          ELSE DocxLines(Tail(lines), Append(doc, [alignment |-> "None", runs |-> r.runs]))

create_docx_bytes(text) == DocxLines(Split(text, "\n"), <<>>)

-----------------------------------------------------------------------------
(* markdown_converter.py: MarkdownToWordConverter *)

\* flush_buf() of latex_like_to_runs
flush_buf(runs, buf) ==
    IF buf # <<>> THEN Append(runs, <<buf, FALSE, FALSE>>) ELSE runs

\* the loop with a marker that opens no styled run left out of the buffer
RECURSIVE LatexLikeLoop_drop_marker(_, _, _, _)
LatexLikeLoop_drop_marker(content, i, buf, runs) ==
    LET n == Len(content) IN
    IF i >= n THEN flush_buf(runs, buf)
    ELSE
      LET char == At(content, i) IN
      IF char \in {"_", "^"} THEN
        LET is_sub == (char = "_")
            i1 == i + 1
        IN
        IF i1 < n /\ At(content, i1) = "{" THEN
          LET closing == Find(content, <<"}">>, i1 + 1) IN
          IF closing = -1 THEN LatexLikeLoop_drop_marker(content, i1, buf, runs)
          ELSE LatexLikeLoop_drop_marker(content, closing + 1, <<>>,
                   Append(flush_buf(runs, buf), <<Slice(content, i1 + 1, closing), is_sub, ~is_sub>>))
        ELSE IF i1 < n THEN
          LatexLikeLoop_drop_marker(content, i1 + 1, <<>>,
              Append(flush_buf(runs, buf), <<<<At(content, i1)>>, is_sub, ~is_sub>>))
        ELSE LatexLikeLoop_drop_marker(content, i1, buf, runs)
      ELSE LatexLikeLoop_drop_marker(content, i + 1, Append(buf, char), runs)

\* the while loop of latex_like_to_runs
RECURSIVE LatexLikeLoop(_, _, _, _)
LatexLikeLoop(content, i, buf, runs) ==
    LET n == Len(content) IN
    IF i >= n THEN flush_buf(runs, buf)
    ELSE
      LET char == At(content, i) IN
      IF char \in {"_", "^"} THEN
        LET is_sub == (char = "_")
            i1 == i + 1
        IN
        IF i1 < n /\ At(content, i1) = "{" THEN
          LET closing == Find(content, <<"}">>, i1 + 1) IN
          IF closing = -1 THEN LatexLikeLoop(content, i1, Append(buf, char), runs)
          ELSE LatexLikeLoop(content, closing + 1, <<>>,
                   Append(flush_buf(runs, buf), <<Slice(content, i1 + 1, closing), is_sub, ~is_sub>>))
        ELSE IF i1 < n THEN
          LatexLikeLoop(content, i1 + 1, <<>>,
              Append(flush_buf(runs, buf), <<<<At(content, i1)>>, is_sub, ~is_sub>>))
        ELSE LatexLikeLoop(content, i1, Append(buf, char), runs)
      ELSE LatexLikeLoop(content, i + 1, Append(buf, char), runs)

latex_like_to_runs(content) == LatexLikeLoop(content, 0, <<>>, <<>>)

\* re.sub over s: mlen[i] is the length of the match that starts at index i
\* (-1: none), repl[i] what replaces it; matches are found left to right and
\* do not overlap.  No pattern of this module matches the empty string.
RECURSIVE ReSubFrom(_, _, _, _)
ReSubFrom(s, i, mlen, repl) ==
    IF i >= Len(s) THEN <<>>
    ELSE IF mlen[i] > 0 THEN repl[i] \o ReSubFrom(s, i + mlen[i], mlen, repl)
    ELSE <<At(s, i)>> \o ReSubFrom(s, i + 1, mlen, repl)

ReSub(s, mlen, repl) == ReSubFrom(s, 0, mlen, repl)

Idx(s) == 0 .. (Len(s) - 1)

\* number of leading characters of s[i:] that are not in class
RECURSIVE SpanLenNot(_, _, _)
SpanLenNot(s, i, class) ==
    IF i < Len(s) /\ At(s, i) \notin class THEN 1 + SpanLenNot(s, i + 1, class) ELSE 0

\* the join rules written with \s for \s+: only a single blank is removed
JoinAcrossOne(s, L, R) ==
    LET mlen == [i \in Idx(s) |->
                   IF /\ i > 0
                      /\ At(s, i - 1) \in L
                      /\ At(s, i) \in Whitespace
                      /\ i + 1 < Len(s)
                      /\ At(s, i + 1) \in R
                   THEN 1 ELSE -1]
    IN  ReSub(s, mlen, [i \in Idx(s) |-> <<>>])

\* re.sub(r"(?<=[L])\s+(?=[R])", "", s)
JoinAcross(s, L, R) ==
    LET mlen == [i \in Idx(s) |->
                   LET w == SpanLen(s, i, Whitespace) IN
                   IF /\ i > 0
                      /\ At(s, i - 1) \in L
                      /\ w > 0
                      /\ i + w < Len(s)
                      /\ At(s, i + w) \in R
                   THEN w ELSE -1]
    IN  ReSub(s, mlen, [i \in Idx(s) |-> <<>>])

\* re.sub(r"\s+", " ", s)
CollapseWhitespace(s) ==
    LET mlen == [i \in Idx(s) |->
                   LET w == SpanLen(s, i, Whitespace) IN IF w > 0 THEN w ELSE -1]
    IN  ReSub(s, mlen, [i \in Idx(s) |-> <<" ">>])

normalize_chem_spacing(text) ==
    LET s1 == JoinAcross(text, Letters, Digits)
        s2 == JoinAcross(s1, Digits, Letters \cup {"(", "[", "{"})
        s3 == JoinAcross(s2, Lower, Upper)
        s4 == JoinAcross(s3, {")", "]", "}"}, Digits)
    IN  Strip(CollapseWhitespace(s4))

\* the closing brackets left out of the condition
IsSubscriptDigit_letters_only(text, i) ==
    /\ At(text, i) \in isdigit
    /\ i > 0
    /\ At(text, i - 1) \in isalpha

\* the condition of _split_for_subscripts: a digit after a letter or ) ] }
IsSubscriptDigit(text, i) ==
    /\ At(text, i) \in isdigit
    /\ i > 0
    /\ (At(text, i - 1) \in isalpha \/ At(text, i - 1) \in {")", "]", "}"})

RECURSIVE PlainEnd(_, _)
PlainEnd(text, i) ==
    IF i < Len(text) /\ ~IsSubscriptDigit(text, i) THEN PlainEnd(text, i + 1) ELSE i

RECURSIVE SplitForSubscriptsLoop(_, _, _)
SplitForSubscriptsLoop(text, i, runs) ==
    IF i >= Len(text) THEN runs
    ELSE IF IsSubscriptDigit(text, i) THEN
      LET j == i + SpanLen(text, i, isdigit) IN
      SplitForSubscriptsLoop(text, j, Append(runs, <<Slice(text, i, j), TRUE, FALSE>>))
    ELSE
      LET k == PlainEnd(text, i + 1) IN
      SplitForSubscriptsLoop(text, k, Append(runs, <<Slice(text, i, k), FALSE, FALSE>>))

_split_for_subscripts(text) == SplitForSubscriptsLoop(text, 0, <<>>)

\* the inference applied to the styled runs too, their style kept on the
\* pieces that are not inferred subscripts
RECURSIVE MakeRunsLoop_resplit(_, _)
MakeRunsLoop_resplit(base_runs, final_runs) ==
    IF base_runs = <<>> THEN final_runs
    ELSE
      LET r == Head(base_runs)
          pieces == _split_for_subscripts(r[1])
          styled == [k \in 1..Len(pieces) |->
                        IF pieces[k][2] THEN pieces[k] ELSE <<pieces[k][1], r[2], r[3]>>]
      IN  MakeRunsLoop_resplit(Tail(base_runs), final_runs \o styled)

RECURSIVE MakeRunsLoop(_, _)
MakeRunsLoop(base_runs, final_runs) ==
    IF base_runs = <<>> THEN final_runs
    ELSE
      LET r == Head(base_runs) IN
      IF r[2] \/ r[3] THEN MakeRunsLoop(Tail(base_runs), Append(final_runs, r))
      ELSE MakeRunsLoop(Tail(base_runs), final_runs \o _split_for_subscripts(r[1]))

_make_runs(content) ==
    MakeRunsLoop(latex_like_to_runs(normalize_chem_spacing(content)), <<>>)

\* stand-ins for the glyphs U+2191, U+2193, U+2192, U+2194
UpArrow == "U+2191"
DownArrow == "U+2193"
RightArrow == "U+2192"
LeftRightArrow == "U+2194"

Lit_mathrm == <<"\\", "m", "a", "t", "h", "r", "m", "{">>
Lit_text == <<"\\", "t", "e", "x", "t", "{">>
Lit_uparrow == <<"\\", "u", "p", "a", "r", "r", "o", "w">>
Lit_downarrow == <<"\\", "d", "o", "w", "n", "a", "r", "r", "o", "w">>
Lit_to == <<"\\", "t", "o">>
Lit_longrightarrow == <<"\\", "l", "o", "n", "g", "r", "i", "g", "h", "t", "a", "r", "r", "o", "w">>
Lit_leftrightarrow == <<"\\", "l", "e", "f", "t", "r", "i", "g", "h", "t", "a", "r", "r", "o", "w">>
Lit_xrightarrow == <<"\\", "x", "r", "i", "g", "h", "t", "a", "r", "r", "o", "w", "[">>
Lit_begin == <<"\\", "b", "e", "g", "i", "n", "{">>
Lit_end == <<"\\", "e", "n", "d", "{">>

\* re.sub(r"<lit>([^}]+)\}", r"\1", s) for lit = \mathrm{ or \text{
UnwrapNamed(s, lit) ==
    LET body(i) == SpanLenNot(s, i + Len(lit), {"}"})
        mlen == [i \in Idx(s) |->
                   IF /\ StartsAt(s, i, lit)
                      /\ body(i) >= 1
                      /\ i + Len(lit) + body(i) < Len(s)
                   THEN Len(lit) + body(i) + 1 ELSE -1]
        repl == [i \in Idx(s) |-> Slice(s, i + Len(lit), i + Len(lit) + body(i))]
    IN  ReSub(s, mlen, repl)

\* re.sub(<a literal>, glyph, s)
ReplaceLiteral(s, lit, with) ==
    ReSub(s, [i \in Idx(s) |-> IF StartsAt(s, i, lit) THEN Len(lit) ELSE -1],
             [i \in Idx(s) |-> with])

\* re.sub(r"\\to|\\longrightarrow|-{1,2}>", "→", s)
ReplaceRightArrows(s) ==
    LET mlen == [i \in Idx(s) |->
                   IF StartsAt(s, i, Lit_to) THEN Len(Lit_to)
                   ELSE IF StartsAt(s, i, Lit_longrightarrow) THEN Len(Lit_longrightarrow)
                   ELSE IF StartsAt(s, i, <<"-", "-", ">">>) THEN 3
                   ELSE IF StartsAt(s, i, <<"-", ">">>) THEN 2
                   ELSE -1]
    IN  ReSub(s, mlen, [i \in Idx(s) |-> <<RightArrow>>])

\* re.sub(r"\\leftrightarrow|<->|<=>", "↔", s)
ReplaceLeftRightArrows(s) ==
    LET mlen == [i \in Idx(s) |->
                   IF StartsAt(s, i, Lit_leftrightarrow) THEN Len(Lit_leftrightarrow)
                   ELSE IF StartsAt(s, i, <<"<", "-", ">">>) THEN 3
                   ELSE IF StartsAt(s, i, <<"<", "=", ">">>) THEN 3
                   ELSE -1]
    IN  ReSub(s, mlen, [i \in Idx(s) |-> <<LeftRightArrow>>])

\* re.sub(r"\\xrightarrow\[[^]]*\]\{[^}]*\}", "→", s)
ReplaceXRightArrow(s) ==
    LET opt(i) == SpanLenNot(s, i + Len(Lit_xrightarrow), {"]"})
        afterOpt(i) == i + Len(Lit_xrightarrow) + opt(i)
        arg(i) == SpanLenNot(s, afterOpt(i) + 2, {"}"})
        mlen == [i \in Idx(s) |->
                   IF /\ StartsAt(s, i, Lit_xrightarrow)
                      /\ StartsAt(s, afterOpt(i), <<"]", "{">>)
                      /\ afterOpt(i) + 2 + arg(i) < Len(s)
                   THEN (afterOpt(i) + 2 + arg(i) + 1) - i ELSE -1]
    IN  ReSub(s, mlen, [i \in Idx(s) |-> <<RightArrow>>])

\* length of the match of <lit>[^}]+\} at s[i:], -1 when it does not match
EnvMarkerLen(s, i, lit) ==
    LET body == SpanLenNot(s, i + Len(lit), {"}"}) IN
    IF StartsAt(s, i, lit) /\ body >= 1 /\ i + Len(lit) + body < Len(s)
    THEN Len(lit) + body + 1 ELSE -1

\* re.sub(r"\\begin\{[^}]+\}|\\end\{[^}]+\}", "", s)
RemoveEnvMarkers(s) ==
    LET mlen == [i \in Idx(s) |->
                   IF EnvMarkerLen(s, i, Lit_begin) # -1 THEN EnvMarkerLen(s, i, Lit_begin)
                   ELSE EnvMarkerLen(s, i, Lit_end)]
    IN  ReSub(s, mlen, [i \in Idx(s) |-> <<>>])

\* re.sub(r"\s*&\s*", " ", s)
ReplaceAmpersands(s) ==
    LET lead(i) == SpanLen(s, i, Whitespace)
        mlen == [i \in Idx(s) |->
                   IF i + lead(i) < Len(s) /\ At(s, i + lead(i)) = "&"
                   THEN lead(i) + 1 + SpanLen(s, i + lead(i) + 1, Whitespace) ELSE -1]
    IN  ReSub(s, mlen, [i \in Idx(s) |-> <<" ">>])

\* re.sub(r"\{\s*[^}]*\s*\}\s*\{=\}", " = ", s)
ReplaceOcrEquals(s) ==
    LET body(i) == SpanLenNot(s, i + 1, {"}"})
        gap(i) == SpanLen(s, i + 1 + body(i) + 1, Whitespace)
        mlen == [i \in Idx(s) |->
                   IF /\ At(s, i) = "{"
                      /\ i + 1 + body(i) < Len(s)
                      /\ StartsAt(s, i + 1 + body(i) + 1 + gap(i), <<"{", "=", "}">>)
                   THEN 1 + body(i) + 1 + gap(i) + 3 ELSE -1]
    IN  ReSub(s, mlen, [i \in Idx(s) |-> <<" ", "=", " ">>])

\* length of the match of \\[a-zA-Z]+\*? at s[i:], -1 when it does not match
CommandLen(s, i) ==
    LET name == SpanLen(s, i + 1, Letters)
        star == IF i + 1 + name < Len(s) /\ At(s, i + 1 + name) = "*" THEN 1 ELSE 0
    IN  IF At(s, i) = "\\" /\ name >= 1 THEN 1 + name + star ELSE -1

\* length of the match of \\[a-zA-Z]+\*?\{([^}]*)\} at s[i:] (-1: none).  The
\* optional star is tried first and given up when no "{" follows it.
CommandArgStart(s, i) ==
    LET name == SpanLen(s, i + 1, Letters)
        p == i + 1 + name
    IN  IF ~(At(s, i) = "\\" /\ name >= 1) THEN -1
        ELSE IF StartsAt(s, p, <<"*", "{">>) THEN p + 2
        ELSE IF StartsAt(s, p, <<"{">>) THEN p + 1
        ELSE -1

\* re.sub(r"\\[a-zA-Z]+\*?\{([^}]*)\}", r"\1", s)
UnwrapCommands(s) ==
    LET a(i) == CommandArgStart(s, i)
        body(i) == SpanLenNot(s, a(i), {"}"})
        mlen == [i \in Idx(s) |->
                   IF a(i) # -1 /\ a(i) + body(i) < Len(s)
                   THEN (a(i) + body(i) + 1) - i ELSE -1]
        repl == [i \in Idx(s) |-> Slice(s, a(i), a(i) + body(i))]
    IN  ReSub(s, mlen, repl)

\* re.sub(r"\\[a-zA-Z]+\*?", "", s)
DropCommands(s) ==
    ReSub(s, [i \in Idx(s) |-> CommandLen(s, i)], [i \in Idx(s) |-> <<>>])

\* s.replace("{", "").replace("}", "")
RemoveBraces(s) == SelectSeq(s, LAMBDA c : c \notin {"{", "}"})

\* re.sub(r"[\t ]+", " ", s)
CollapseBlanks(s) ==
    LET mlen == [i \in Idx(s) |->
                   LET w == SpanLen(s, i, {"\t", " "}) IN IF w > 0 THEN w ELSE -1]
    IN  ReSub(s, mlen, [i \in Idx(s) |-> <<" ">>])

\* re.sub(r" *\n *", "\n", s)
TrimAroundNewlines(s) ==
    LET lead(i) == SpanLen(s, i, {" "})
        mlen == [i \in Idx(s) |->
                   IF i + lead(i) < Len(s) /\ At(s, i + lead(i)) = "\n"
                   THEN lead(i) + 1 + SpanLen(s, i + lead(i) + 1, {" "}) ELSE -1]
    IN  ReSub(s, mlen, [i \in Idx(s) |-> <<"\n">>])

convert_latex_to_simple(latex_content) ==
    LET c1 == UnwrapNamed(latex_content, Lit_mathrm)
        c2 == UnwrapNamed(c1, Lit_text)
        c3 == ReplaceLiteral(c2, Lit_uparrow, <<UpArrow>>)
        c4 == ReplaceLiteral(c3, Lit_downarrow, <<DownArrow>>)
        c5 == ReplaceRightArrows(c4)
        c6 == ReplaceLeftRightArrows(c5)
        c7 == ReplaceXRightArrow(c6)
        c8 == RemoveEnvMarkers(c7)
        c9 == ReplaceLiteral(c8, <<"\\", "\\">>, <<"\n">>)
        c10 == ReplaceAmpersands(c9)
        c11 == ReplaceOcrEquals(c10)
        c12 == UnwrapCommands(c11)
        c13 == DropCommands(c12)
        c14 == RemoveBraces(c13)
        c15 == CollapseBlanks(c14)
        c16 == TrimAroundNewlines(c15)
    IN  Strip(c16)

\* re.split(r"(\$\$[\s\S]*?\$\$)", text): the texts between the matches and
\* the matches, in order (empty strings included)
RECURSIVE SplitBlocksFrom(_, _)
SplitBlocksFrom(text, pos) ==
    LET open == Find(text, <<"$", "$">>, pos)
        close == IF open = -1 THEN -1 ELSE Find(text, <<"$", "$">>, open + 2)
    IN  IF close = -1 THEN <<Slice(text, pos, Len(text))>>
        ELSE <<Slice(text, pos, open), Slice(text, open, close + 2)>>
                 \o SplitBlocksFrom(text, close + 2)

\* start of the leftmost match of \$[^$]+\$ at or after i, or -1
RECURSIVE FindInline(_, _)
FindInline(part, i) ==
    IF i >= Len(part) THEN -1
    ELSE IF /\ At(part, i) = "$"
            /\ SpanLenNot(part, i + 1, {"$"}) >= 1
            /\ i + 1 + SpanLenNot(part, i + 1, {"$"}) < Len(part)
         THEN i
    ELSE FindInline(part, i + 1)

\* re.split without the capturing group: the matches are not returned
RECURSIVE SplitInlineFrom_uncaptured(_, _)
SplitInlineFrom_uncaptured(part, pos) ==
    LET open == FindInline(part, pos)
        close == open + 1 + SpanLenNot(part, open + 1, {"$"})
    IN  IF open = -1 THEN <<Slice(part, pos, Len(part))>>
        ELSE <<Slice(part, pos, open)>> \o SplitInlineFrom_uncaptured(part, close + 1)

\* re.split(r"(\$[^$]+\$)", part)
RECURSIVE SplitInlineFrom(_, _)
SplitInlineFrom(part, pos) ==
    LET open == FindInline(part, pos)
        close == open + 1 + SpanLenNot(part, open + 1, {"$"})
    IN  IF open = -1 THEN <<Slice(part, pos, Len(part))>>
        ELSE <<Slice(part, pos, open), Slice(part, open, close + 1)>>
                 \o SplitInlineFrom(part, close + 1)

StartsWith(s, p) == StartsAt(s, 0, p)
EndsWith(s, p) == Len(p) <= Len(s) /\ StartsAt(s, Len(s) - Len(p), p)

\* the block_formula segments of one $$...$$ part
RECURSIVE BlockSegments(_)
BlockSegments(lines) ==
    IF lines = <<>> THEN <<>>
    ELSE (IF Strip(Head(lines)) # <<>> THEN <<<<"block_formula", Strip(Head(lines))>>>> ELSE <<>>)
             \o BlockSegments(Tail(lines))

\* the segments of the pieces of one part that is not a $$...$$ block
RECURSIVE InlineSegments(_)
InlineSegments(inline_parts) ==
    IF inline_parts = <<>> THEN <<>>
    ELSE
      LET inline == Head(inline_parts)
          seg == IF inline = <<>> THEN <<>>
                 ELSE IF StartsWith(inline, <<"$">>) /\ EndsWith(inline, <<"$">>)
                 THEN <<<<"inline_formula",
                          convert_latex_to_simple(Slice(inline, 1, Len(inline) - 1))>>>>
                 ELSE IF Strip(inline) # <<>> THEN <<<<"text", inline>>>>
                 ELSE <<>>
      IN  seg \o InlineSegments(Tail(inline_parts))

RECURSIVE PartSegments(_)
PartSegments(parts) ==
    IF parts = <<>> THEN <<>>
    ELSE
      LET part == Head(parts)
          segs == IF part = <<>> THEN <<>>
                  ELSE IF StartsWith(part, <<"$", "$">>) /\ EndsWith(part, <<"$", "$">>)
                  THEN BlockSegments(Split(
                           convert_latex_to_simple(Strip(Slice(part, 2, Len(part) - 2))), "\n"))
                  ELSE InlineSegments(SplitInlineFrom(part, 0))
      IN  segs \o PartSegments(Tail(parts))

parse_content(text) == PartSegments(SplitBlocksFrom(text, 0))

\* paragraph.add_run for every run of _make_runs(content), on paragraph k of doc
AddRuns(doc, k, content) ==
    [doc EXCEPT ![k].runs = @ \o _make_runs(content)]

NewParagraph(alignment) == [alignment |-> alignment, runs |-> <<>>]

\* the lines of one text segment; current is the index of current_paragraph
\* in doc, 0 for None
RECURSIVE TextLines(_, _, _, _)
TextLines(lines, index, doc, current) ==
    IF index >= Len(lines) THEN [doc |-> doc, current |-> current]
    ELSE
      LET line == Strip(At(lines, index))
          doc1 == IF line # <<>> /\ current = 0 THEN Append(doc, NewParagraph("None")) ELSE doc
          cur1 == IF line # <<>> /\ current = 0 THEN Len(doc1) ELSE current
          doc2 == IF line # <<>> THEN AddRuns(doc1, cur1, line) ELSE doc1
          cur2 == IF index < Len(lines) - 1 /\ line # <<>> THEN 0 ELSE cur1
      IN  TextLines(lines, index + 1, doc2, cur2)

\* the loop over the segments in create_word_document
RECURSIVE AssembleSegments(_, _, _)
AssembleSegments(segments, doc, current) ==
    IF segments = <<>> THEN doc
    ELSE
      LET segment_type == Head(segments)[1]
          content == Head(segments)[2]
      IN
      IF segment_type = "block_formula" THEN
        AssembleSegments(Tail(segments),
            AddRuns(Append(doc, NewParagraph("CENTER")), Len(doc) + 1, content), 0)
      ELSE IF segment_type = "inline_formula" THEN
        LET doc1 == IF current = 0 THEN Append(doc, NewParagraph("None")) ELSE doc
            cur1 == IF current = 0 THEN Len(doc1) ELSE current
        IN  AssembleSegments(Tail(segments), AddRuns(doc1, cur1, content), cur1)
      ELSE
        LET r == TextLines(Split(content, "\n"), 0, doc, current)
        IN  AssembleSegments(Tail(segments), r.doc, r.current)

\* create_word_document: no statement of it can raise on a str
create_word_document(markdown_text) ==
    [raised |-> NoRaise, message |-> "",
     paragraphs |-> AssembleSegments(parse_content(markdown_text), <<>>, 0)]

-----------------------------------------------------------------------------
(* pipeline.py: ChemistryPipeline, ocr.py: ChemistryOCR *)

\* the two replacements in the other order: '$' removed first
_final_cleanup_strip_first(text) ==
    ReplaceLiteral(SelectSeq(text, LAMBDA c : c # "$"), <<"\\", "n">>, <<"\n">>)

\* _final_cleanup: literal backslash-n to newline, then every '$' removed
_final_cleanup(text) ==
    SelectSeq(ReplaceLiteral(text, <<"\\", "n">>, <<"\n">>), LAMBDA c : c # "$")

\* max_retries and base_sleep of _refine_text_with_retry
MaxRetries == 3
BaseSleep == 1

FallbackModel == "pixtral-12b"
VitModels == {"pixtral-12b", "pixtral-large-latest"}

\* all strings over alphabet of length at most n
Strs(alphabet, n) == UNION {[1..k -> alphabet] : k \in 0..n}

\* bounds of the texts the backends return
MaxDraftLen == 2
PipeAlphabet == {"H", "2", "^", "\\", "n", "$"}
ResponseTexts == Strs(PipeAlphabet, MaxDraftLen)
RefinerTexts == {<<>>, <<"O">>, <<"H", "\\", "n", "O", "_">>, <<"$", "H", "_", "2", "$">>,
                 <<"\\", "$", "n">>}

\* str(response) of a response object that carries no text
ReprText == <<"r", "e", "s", "p">>

\* a backend call either raises or returns a response carrying a text
VisionOutcomes == {[ok |-> FALSE, content |-> <<>>]}
                      \cup {[ok |-> TRUE, content |-> t] : t \in ResponseTexts}
\* OCR: the call raises, or returns no pages, or pages[0].markdown
OcrOutcomes == {[ok |-> FALSE, pages |-> 0, markdown |-> <<>>],
                [ok |-> TRUE, pages |-> 0, markdown |-> <<>>]}
                   \cup {[ok |-> TRUE, pages |-> 1, markdown |-> t] : t \in ResponseTexts}

\* an exception of the refiner call: sdk is isinstance(e, SDKError),
\* status_code is getattr(e, "status_code", None) with 0 for None,
\* status429 is "Status 429" in str(e), capacity is "capacity" in str(e).lower()
NoError == [kind |-> "none", sdk |-> FALSE, status_code |-> 0, status429 |-> FALSE, capacity |-> FALSE]
OkCall  == [kind |-> "ok", sdk |-> FALSE, status_code |-> 0, status429 |-> FALSE, capacity |-> FALSE]
Err(sdk, status_code, status429, capacity) ==
    [kind |-> "error", sdk |-> sdk, status_code |-> status_code,
     status429 |-> status429, capacity |-> capacity]
RefinerErrors == {Err(TRUE, 429, FALSE, FALSE), Err(TRUE, 500, TRUE, FALSE),
                  Err(TRUE, 0, FALSE, TRUE), Err(TRUE, 500, FALSE, FALSE),
                  Err(FALSE, 0, FALSE, FALSE), Err(FALSE, 429, TRUE, TRUE)}
RefinerOutcomes == [ok : {FALSE}, content : {<<>>}, err : RefinerErrors]
                       \cup [ok : {TRUE}, content : RefinerTexts, err : {OkCall}]

\* the payload check left out
EmptyPayload_never(d) == FALSE

\* `if not data`
EmptyPayload(d) == d = "empty"

Raise(kind, message) == [raised |-> kind, message |-> message, paragraphs |-> <<>>]
NoOutcome == [raised |-> NoRaise, message |-> "", paragraphs |-> <<>>]

\* the text of a chat response: message.content, else str(response)
ExtractText(resp) == IF resp.content # <<>> THEN resp.content ELSE ReprText

\* _vit_extract_text(data, mime_type, model) when the backend answers resp:
\* calls lists the backend calls it made
_vit_extract_text(d, m, resp) ==
    IF EmptyPayload(d)
    THEN [raised |-> "ChemistryOCRError", message |-> "Empty image payload",
          calls |-> <<>>, text |-> <<>>]
    ELSE IF ~resp.ok
    THEN [raised |-> "ChemistryOCRError", message |-> "Vision request failed",
          calls |-> <<m>>, text |-> <<>>]
    ELSE [raised |-> NoRaise, message |-> "", calls |-> <<m>>, text |-> ExtractText(resp)]

\* ChemistryOCR.process_image_bytes(data, output_format="markdown")
ocr_process_image_bytes(d, resp) ==
    IF EmptyPayload(d)
    THEN [raised |-> "ChemistryOCRError", message |-> "Empty image payload",
          calls |-> 0, text |-> <<>>]
    ELSE IF ~resp.ok
    THEN [raised |-> "ChemistryOCRError", message |-> "Mistral OCR request failed",
          calls |-> 1, text |-> <<>>]
    ELSE IF resp.pages = 0
    THEN [raised |-> "ChemistryOCRError", message |-> "OCR response contains no pages",
          calls |-> 1, text |-> <<>>]
    ELSE [raised |-> NoRaise, message |-> "", calls |-> 1, text |-> resp.markdown]

\* the fallback taken whatever the configured model is
NeedsFallback_always(selected_model) == TRUE

\* `if selected_model != "pixtral-12b"` of process_image_bytes_vit
NeedsFallback(selected_model) == selected_model # FallbackModel

\* the retry condition of _refine_text_with_retry, inside `except SDKError`
IsRateLimit(e) == e.status_code = 429 \/ e.status429 \/ e.capacity

RECURSIVE Pow2(_)
Pow2(k) == IF k = 0 THEN 1 ELSE 2 * Pow2(k - 1)

\* a linear backoff, base_sleep * (attempt + 1)
BackoffDelay_linear(k) == BaseSleep * (k + 1)

\* sleep_s = base_sleep * (2 ** attempt)
BackoffDelay(k) == BaseSleep * Pow2(k)

\* every SDKError retried, rate limit or not
RefinerErrorAction_retry_all(e) == IF e.sdk THEN "retry" ELSE "break"

\* what the except clauses of _refine_text_with_retry do with exception e:
\* "retry" (sleep, continue), "raise" (re-raise e) or "break" (raise last_err)
RefinerErrorAction(e) ==
    IF e.sdk THEN (IF IsRateLimit(e) THEN "retry" ELSE "raise") ELSE "break"

\* the handler written `except ChemistryOCRError`: refiner errors pass through
CatchRefinerFailure_narrow(draft, e) == [propagates |-> TRUE, refined_text |-> draft]

\* `except Exception: refined_text = draft_text` of process_image_bytes_vit:
\* whether the exception leaves process_image_bytes_vit, and refined_text
CatchRefinerFailure(draft, e) == [propagates |-> FALSE, refined_text |-> draft]

ExceptionName(e) == IF e.sdk THEN "SDKError" ELSE "Exception"

PipeInit ==
    /\ pc = "start"
    /\ \/ mode = "ViT" /\ model \in VitModels
       \/ mode = "OCR" /\ model = FallbackModel
    /\ data \in {"empty", "bytes"}
    /\ visionCalls = <<>>
    /\ ocrCalls = 0
    /\ refinerCalls = 0
    /\ rateLimited = 0
    /\ last_call = NoError
    /\ sleeps = <<>>
    /\ attempt = 0
    /\ last_err = NoError
    /\ draft_text = <<>>
    /\ refined_text = <<>>
    /\ cleaned = <<>>
    /\ outcome = NoOutcome

\* the part of the state the text and server specifications do not use
PipeIdle ==
    /\ pc = "idle" /\ mode = "ViT" /\ model = FallbackModel /\ data = "bytes"
    /\ visionCalls = <<>> /\ ocrCalls = 0 /\ refinerCalls = 0 /\ rateLimited = 0
    /\ last_call = NoError /\ sleeps = <<>> /\ attempt = 0 /\ last_err = NoError
    /\ draft_text = <<>> /\ refined_text = <<>> /\ cleaned = <<>>
    /\ outcome = NoOutcome

\* process_image_bytes_vit: the first _vit_extract_text and its except clause
VitExtract ==
    /\ pc = "start" /\ mode = "ViT"
    /\ \E resp \in VisionOutcomes :
         LET r == _vit_extract_text(data, model, resp) IN
         /\ visionCalls' = visionCalls \o r.calls
         /\ IF r.raised = NoRaise
            THEN pc' = "refine" /\ draft_text' = r.text /\ outcome' = outcome
            ELSE IF NeedsFallback(model)
            THEN pc' = "vit_fallback" /\ UNCHANGED <<draft_text, outcome>>
            ELSE pc' = "done" /\ outcome' = Raise(r.raised, r.message)
                   /\ UNCHANGED draft_text
    /\ UNCHANGED <<mode, data, model, ocrCalls, refinerCalls, rateLimited, last_call,
                   sleeps, attempt, last_err, refined_text, cleaned>>
    /\ UNCHANGED <<textVars, srvVars>>

\* process_image_bytes_vit: _vit_extract_text with "pixtral-12b" in the handler
VitExtractFallback ==
    /\ pc = "vit_fallback"
    /\ \E resp \in VisionOutcomes :
         LET r == _vit_extract_text(data, FallbackModel, resp) IN
         /\ visionCalls' = visionCalls \o r.calls
         /\ IF r.raised = NoRaise
            THEN pc' = "refine" /\ draft_text' = r.text /\ outcome' = outcome
            ELSE pc' = "done" /\ outcome' = Raise(r.raised, r.message)
                   /\ UNCHANGED draft_text
    /\ UNCHANGED <<mode, data, model, ocrCalls, refinerCalls, rateLimited, last_call,
                   sleeps, attempt, last_err, refined_text, cleaned>>
    /\ UNCHANGED <<textVars, srvVars>>

\* how an exception e of the refiner stage ends it in process_image_bytes_vit
RefinerStageFails(e) ==
    LET h == CatchRefinerFailure(draft_text, e) IN
    IF h.propagates
    THEN pc' = "done" /\ outcome' = Raise(ExceptionName(e), "refiner")
           /\ UNCHANGED refined_text
    ELSE pc' = "cleanup" /\ refined_text' = h.refined_text /\ outcome' = outcome

\* one iteration of the loop of _refine_text_with_retry up to its return, its
\* raise or its time.sleep
RefinerCall ==
    /\ pc = "refine" /\ attempt < MaxRetries
    /\ \E res \in RefinerOutcomes :
         /\ refinerCalls' = refinerCalls + 1
         /\ last_call' = res.err
         /\ IF res.ok
            THEN /\ pc' = "cleanup" /\ refined_text' = ExtractText(res)
                 /\ UNCHANGED <<sleeps, last_err, rateLimited, outcome>>
            ELSE IF RefinerErrorAction(res.err) = "retry"
            THEN /\ sleeps' = Append(sleeps, BackoffDelay(attempt))
                 /\ rateLimited' = rateLimited + 1
                 /\ pc' = "sleeping"
                 /\ UNCHANGED <<last_err, refined_text, outcome>>
            ELSE IF RefinerErrorAction(res.err) = "raise"
            THEN /\ RefinerStageFails(res.err)
                 /\ UNCHANGED <<sleeps, last_err, rateLimited>>
            ELSE /\ last_err' = res.err
                 /\ RefinerStageFails(res.err)
                 /\ UNCHANGED <<sleeps, rateLimited>>
    /\ UNCHANGED <<mode, data, model, visionCalls, ocrCalls, attempt, draft_text, cleaned>>
    /\ UNCHANGED <<textVars, srvVars>>

\* time.sleep returns: last_err = e; continue; after the last attempt the loop
\* ends and last_err is raised
BackoffWake ==
    /\ pc = "sleeping"
    /\ last_err' = last_call
    /\ attempt' = attempt + 1
    /\ IF attempt + 1 < MaxRetries
       THEN pc' = "refine" /\ UNCHANGED <<refined_text, outcome>>
       ELSE RefinerStageFails(last_call)
    /\ UNCHANGED <<mode, data, model, visionCalls, ocrCalls, refinerCalls, rateLimited,
                   last_call, sleeps, draft_text, cleaned>>
    /\ UNCHANGED <<textVars, srvVars>>

\* process_image_bytes: self.ocr.process_image_bytes(...)
OcrExtract ==
    /\ pc = "start" /\ mode = "OCR"
    /\ \E resp \in OcrOutcomes :
         LET r == ocr_process_image_bytes(data, resp) IN
         /\ ocrCalls' = ocrCalls + r.calls
         /\ IF r.raised = NoRaise
            THEN pc' = "cleanup" /\ draft_text' = r.text /\ refined_text' = r.text
                   /\ outcome' = outcome
            ELSE pc' = "done" /\ outcome' = Raise(r.raised, r.message)
                   /\ UNCHANGED <<draft_text, refined_text>>
    /\ UNCHANGED <<mode, data, model, visionCalls, refinerCalls, rateLimited, last_call,
                   sleeps, attempt, last_err, cleaned>>
    /\ UNCHANGED <<textVars, srvVars>>

\* the renderer the orchestrator hands the cleaned text to
RenderCleaned(text) == create_docx_bytes(text)

\* cleaned = self._final_cleanup(...); return create_docx_bytes(cleaned)
CleanupAndRender ==
    /\ pc = "cleanup"
    /\ cleaned' = _final_cleanup(refined_text)
    /\ outcome' = RenderCleaned(cleaned')
    /\ pc' = "done"
    /\ UNCHANGED <<mode, data, model, visionCalls, ocrCalls, refinerCalls, rateLimited,
                   last_call, sleeps, attempt, last_err, draft_text, refined_text>>
    /\ UNCHANGED <<textVars, srvVars>>

TextIdle == input = <<>> /\ tpc = "idle" /\ out = [op |-> "none", value |-> <<>>]
SrvIdle ==
    /\ api_key = "" /\ hpc = <<>> /\ hattempt = <<>> /\ hmode = <<>>
    /\ uploads = <<>> /\ pasted_images = <<>> /\ documents = <<>>
    /\ response = <<>> /\ loopOwner = 0

PipeNext ==
    \/ VitExtract
    \/ VitExtractFallback
    \/ RefinerCall
    \/ BackoffWake
    \/ OcrExtract
    \/ CleanupAndRender

\* one recognition request through ChemistryPipeline
Init == PipeInit /\ TextIdle /\ SrvIdle
Next == PipeNext
Spec == Init /\ [][Next]_vars

-----------------------------------------------------------------------------
(* The text functions of both renderers, each applied to one input string *)

MaxLen == 4
\* markup, a letter, the Greek letter nu, a digit, blanks and line breaks
TextAlphabet == {"a", "U+03BD", "2", " ", "\n", "^", "_", "{", "}"}
\* the character classes of the rules of normalize_chem_spacing
SpacingAlphabet == {"a", "B", "2", " ", "\n", "U+00A0", "(", ")"}

\* a sign after a marker, with and without a digit behind it: the baseline
\* writer reads a signed number after ^ and only digits after _
SignedTexts ==
    {<<m, g>> \o rest : m \in {"^", "_"}, g \in {"+", "-", PlusMinus},
                        rest \in {<<>>, <<"2">>, <<"a">>, <<"2", "2">>}}
        \cup {<<"C", "a", "^", "2", "+">>, <<"O", "^", "2", "-">>, <<"a", "^", "{", "+", "2", "}">>}

\* the formulas the documentation of the converter names, and a styled group
\* holding a digit after a letter
ExampleTexts == {<<"N", "^", "{", "2", "+", "}">>, <<"H", "2", "O">>,
                 <<"a", "^", "{", "a", "2", "}">>} \cup SignedTexts

NoOutput == [op |-> "none", value |-> <<>>]

Apply(op, value) ==
    /\ tpc = "start"
    /\ out' = [op |-> op, value |-> value]
    /\ tpc' = "done"
    /\ UNCHANGED <<input, pipeVars, srvVars>>

NormalizeOnce ==
    /\ tpc = "start"
    /\ out' = [op |-> "normalize_chem_spacing", value |-> normalize_chem_spacing(input)]
    /\ tpc' = "normalized"
    /\ UNCHANGED <<input, pipeVars, srvVars>>

\* normalize_chem_spacing applied to its own output
NormalizeAgain ==
    /\ tpc = "normalized"
    /\ out' = [op |-> "normalize_chem_spacing twice",
               value |-> normalize_chem_spacing(out.value)]
    /\ tpc' = "done"
    /\ UNCHANGED <<input, pipeVars, srvVars>>

LatexLikeToRuns == Apply("latex_like_to_runs", latex_like_to_runs(input))

SplitForSubscripts == Apply("_split_for_subscripts", _split_for_subscripts(input))

MakeRuns == Apply("_make_runs", _make_runs(input))

\* create_docx_bytes calls _add_parsed_line on the non-empty lines of a text
AddParsedLine ==
    /\ input # <<>>
    /\ \A k \in 1..Len(input) : input[k] # "\n"
    /\ Apply("_add_parsed_line", _add_parsed_line(input))

\* the orchestrator's rendering of a cleaned text (no '$' is left in it)
CreateDocxBytes ==
    /\ \A k \in 1..Len(input) : input[k] # "$"
    /\ Apply("create_docx_bytes", RenderCleaned(input))

CreateWordDocument == Apply("create_word_document", create_word_document(input))

TextNext ==
    \/ LatexLikeToRuns
    \/ SplitForSubscripts
    \/ MakeRuns
    \/ AddParsedLine
    \/ CreateDocxBytes
    \/ CreateWordDocument

InitText ==
    /\ input \in Strs(TextAlphabet, MaxLen) \cup ExampleTexts
    /\ tpc = "start"
    /\ out = NoOutput
    /\ PipeIdle /\ SrvIdle

\* the run tokenizers and the two renderers on one input
SpecText == InitText /\ [][TextNext]_vars

InitSpacing ==
    /\ input \in Strs(SpacingAlphabet, MaxLen)
    /\ tpc = "start"
    /\ out = NoOutput
    /\ PipeIdle /\ SrvIdle

SpacingNext == NormalizeOnce \/ NormalizeAgain

\* normalize_chem_spacing on one input, once and twice
SpecSpacing == InitSpacing /\ [][SpacingNext]_vars

-----------------------------------------------------------------------------
(* The segmenter and the command converter, each applied to one input *)

\* a formula delimiter, a command letter, braces, a backslash and a blank
FormulaAlphabet == {"$", "\\", "a", "{", "}", " "}

\* longer formulas: a command unwrapped to a lone backslash before a letter,
\* and \Delta\mathrm{H}
FormulaExamples ==
    {<<"\\", "a", "{", "\\", "}", "a">>,
     <<"\\", "D", "e", "l", "t", "a">> \o Lit_mathrm \o <<"H", "}">>}

ConvertLatexToSimple == Apply("convert_latex_to_simple", convert_latex_to_simple(input))

ParseContent == Apply("parse_content", parse_content(input))

FormulaNext == ConvertLatexToSimple \/ ParseContent

InitFormula ==
    /\ input \in Strs(FormulaAlphabet, MaxLen) \cup FormulaExamples
    /\ tpc = "start"
    /\ out = NoOutput
    /\ PipeIdle /\ SrvIdle

\* parse_content and convert_latex_to_simple on one input
SpecFormula == InitFormula /\ [][FormulaNext]_vars

-----------------------------------------------------------------------------
(* Documents with one $$...$$ block between plain or inline content *)

MaxBodyLen == 4
\* a letter, a digit, a blank and the backslash of the LaTeX line break
BodyAlphabet == {"a", "2", "\\", " "}
BlockBefore == {<<>>, <<"a">>, <<"$", "a", "$", " ">>}
BlockAfter == {<<>>, <<"a">>, <<"$", "a", "$">>}
\* the body of the documentation (A=B, a line break, C=D), and bodies with a
\* word or a command right behind a line break: "to", "total", "\to"
BodyExamples ==
    {<<"A", "=", "B", "\\", "\\", "C", "=", "D">>,
     <<"a", "\\", "\\", "t", "o">>,
     <<"a", "\\", "\\", " ", "t", "o">>,
     <<"a", "\\", "\\", "t", "o", "t", "a", "l">>,
     <<"a", "\\", "\\">> \o Lit_to \o <<"b">>}
BlockTexts ==
    {pre \o <<"$", "$">> \o body \o <<"$", "$">> \o post :
        pre \in BlockBefore,
        body \in Strs(BodyAlphabet, MaxBodyLen) \cup BodyExamples,
        post \in BlockAfter}

BlocksNext == ParseContent \/ CreateWordDocument

InitBlocks ==
    /\ input \in BlockTexts
    /\ tpc = "start"
    /\ out = NoOutput
    /\ PipeIdle /\ SrvIdle

\* parse_content and create_word_document on a document with a block formula
SpecBlocks == InitBlocks /\ [][BlocksNext]_vars

-----------------------------------------------------------------------------------------------------------------------------------------------------
(* main.py: concurrent requests.  Every endpoint is a coroutine on the      *)
(* server's one event loop (start_server.py): between two awaits that       *)
(* suspend it a handler runs without interruption on the loop's thread, and *)
(* no other coroutine runs until it suspends or returns.  process_images    *)
(* suspends at `await request.form()` and at each `await upload.read()`;    *)
(* api_key_store.get() and _next_doc_index() take a lock nobody holds       *)
(* across an await and return without suspending.  index and                *)
(* download_document only read the server's state and have no action.       *)

NumRequests == 2
Requests == 1..NumRequests

\* form.getlist("files"): what `await upload.read()` gives for each upload
UploadLists == {<<>>, <<"bytes">>, <<"empty">>, <<"bytes", "bytes">>}
\* form.getlist("pasted"): a data URL, a blank field, a text that is no data URL
PastedLists == {<<>>, <<"data:">>, <<"">>, <<"text">>}
\* form.get("mode") or "ViT"
Modes == {"ViT", "OCR"}

InitServer ==
    /\ api_key \in {"", "key"}
    /\ hpc = [r \in Requests |-> "start"]
    /\ hattempt = [r \in Requests |-> 0]
    /\ hmode = [r \in Requests |-> "ViT"]
    /\ uploads = [r \in Requests |-> <<>>]
    /\ pasted_images = [r \in Requests |-> <<>>]
    /\ documents = [r \in Requests |-> 0]
    /\ response = [r \in Requests |-> 0]
    /\ loopOwner = 0
    /\ PipeIdle /\ TextIdle

\* POST /api/set-key with a non-empty key
SetApiKey ==
    /\ loopOwner = 0
    /\ api_key' = "key"
    /\ UNCHANGED <<hpc, hattempt, hmode, uploads, pasted_images, documents,
                   response, loopOwner, pipeVars, textVars>>

\* POST /api/clear-key
ClearApiKey ==
    /\ loopOwner = 0
    /\ api_key' = ""
    /\ UNCHANGED <<hpc, hattempt, hmode, uploads, pasted_images, documents,
                   response, loopOwner, pipeVars, textVars>>

\* where process_images stands next and what it holds there
Stop(p, u, pa, docs, status, att) ==
    [pc |-> p, uploads |-> u, pasted |-> pa, documents |-> docs,
     response |-> status, attempt |-> att]

\* the handler is left with an HTTPException or an uncaught exception
Raised(status, docs, att) == Stop("done", <<>>, <<>>, docs, status, att)

\* pipeline.process_image_bytes_vit / process_image_bytes is entered, a plain
\* call on the loop's thread: the vision or OCR backend fails
\* (ChemistryOCRError, HTTP 500), or the ViT path reaches its first refiner
\* call, or the OCR path its rendering
ProcessImage(m, u, pa, docs, att) ==
    IF m = "ViT"
    THEN {Stop("refine", u, pa, docs, 0, 0), Raised(500, docs, att)}
    ELSE {Stop("store", u, pa, docs, 0, att), Raised(500, docs, att)}

\* the loop over pasted_images: a blank one is skipped, one that is no data
\* URL raises ValueError (not caught: HTTP 500); after the last one the
\* response is 200 with the documents, 400 when there are none
RECURSIVE PastedLoop(_, _, _, _)
PastedLoop(m, pa, docs, att) ==
    IF pa = <<>> THEN {Stop("done", <<>>, <<>>, docs, IF docs > 0 THEN 200 ELSE 400, att)}
    ELSE IF Head(pa) = "" THEN PastedLoop(m, Tail(pa), docs, att)
    ELSE IF Head(pa) = "text" THEN {Raised(500, docs, att)}
    ELSE ProcessImage(m, <<>>, Tail(pa), docs, att)

\* the two loops from the next upload on: up to `await upload.read()`, or
\* through the pasted images when no upload is left
Loops(m, u, pa, docs, att) ==
    IF u # <<>> THEN {Stop("read", u, pa, docs, 0, att)}
    ELSE PastedLoop(m, pa, docs, att)

\* request r goes on to stop s; it holds the loop's thread inside the pipeline
Goto(r, s) ==
    /\ hpc' = [hpc EXCEPT ![r] = s.pc]
    /\ uploads' = [uploads EXCEPT ![r] = s.uploads]
    /\ pasted_images' = [pasted_images EXCEPT ![r] = s.pasted]
    /\ documents' = [documents EXCEPT ![r] = s.documents]
    /\ response' = [response EXCEPT ![r] = s.response]
    /\ hattempt' = [hattempt EXCEPT ![r] = s.attempt]
    /\ loopOwner' = IF s.pc \in {"refine", "sleeping", "store"} THEN r ELSE 0

\* _ensure_key, then up to `await request.form()`: without a stored key
\* HTTP 400, else the coroutine is suspended on the body
HandlerBegin(r) ==
    /\ hpc[r] = "start" /\ loopOwner = 0
    /\ IF api_key = "" THEN Goto(r, Raised(400, 0, hattempt[r]))
       ELSE Goto(r, Stop("form", <<>>, <<>>, 0, 0, hattempt[r]))
    /\ UNCHANGED <<api_key, hmode, pipeVars, textVars>>

\* the form arrived: HTTP 400 when it holds no image, else on into the loops
HandlerForm(r) ==
    /\ hpc[r] = "form" /\ loopOwner = 0
    /\ \E u \in UploadLists, pa \in PastedLists, m \in Modes :
         /\ hmode' = [hmode EXCEPT ![r] = m]
         /\ IF u = <<>> /\ pa = <<>> THEN Goto(r, Raised(400, 0, hattempt[r]))
            ELSE \E s \in Loops(m, u, pa, 0, hattempt[r]) : Goto(r, s)
    /\ UNCHANGED <<api_key, pipeVars, textVars>>

\* the upload was read: an empty one is skipped, else the pipeline is entered
HandlerProcess(r) ==
    /\ hpc[r] = "read" /\ loopOwner = 0
    /\ LET u == Tail(uploads[r])
           pa == pasted_images[r]
       IN  \E s \in (IF Head(uploads[r]) = "empty"
                     THEN Loops(hmode[r], u, pa, documents[r], hattempt[r])
                     ELSE ProcessImage(hmode[r], u, pa, documents[r], hattempt[r])) :
               Goto(r, s)
    /\ UNCHANGED <<api_key, hmode, pipeVars, textVars>>

\* one refiner call of _refine_text_with_retry: it returns, or fails for good,
\* or is rate limited and time.sleep is entered
HandlerRefine(r) ==
    /\ hpc[r] = "refine" /\ loopOwner = r
    /\ \E res \in {"ok", "retry", "raise"} :
         hpc' = [hpc EXCEPT ![r] = IF res = "retry" THEN "sleeping" ELSE "store"]
    /\ UNCHANGED <<api_key, hattempt, hmode, uploads, pasted_images, documents,
                   response, loopOwner, pipeVars, textVars>>

\* time.sleep returns on the loop's thread
HandlerWake(r) ==
    /\ hpc[r] = "sleeping" /\ loopOwner = r
    /\ hattempt' = [hattempt EXCEPT ![r] = @ + 1]
    /\ hpc' = [hpc EXCEPT ![r] = IF hattempt[r] + 1 < MaxRetries THEN "refine" ELSE "store"]
    /\ UNCHANGED <<api_key, hmode, uploads, pasted_images, documents, response,
                   loopOwner, pipeVars, textVars>>

\* cleanup and rendering, which raises IndexError on some texts (not caught:
\* HTTP 500), then _store_generated_doc and on into the loops
HandlerFinish(r) ==
    /\ hpc[r] = "store" /\ loopOwner = r
    /\ \E s \in {Raised(500, documents[r], hattempt[r])}
                \cup Loops(hmode[r], uploads[r], pasted_images[r],
                           documents[r] + 1, hattempt[r]) :
           Goto(r, s)
    /\ UNCHANGED <<api_key, hmode, pipeVars, textVars>>

HandlerStep(r) ==
    \/ HandlerBegin(r)
    \/ HandlerForm(r)
    \/ HandlerProcess(r)
    \/ HandlerRefine(r)
    \/ HandlerWake(r)
    \/ HandlerFinish(r)

SrvNext ==
    \/ \E r \in Requests : HandlerStep(r)
    \/ SetApiKey
    \/ ClearApiKey

SpecServer == InitServer /\ [][SrvNext]_vars

-----------------------------------------------------------------------------
(* Properties *)

\* the claims' reading of a refiner call's end: a rate-limit/capacity error is
\* an SDKError with status 429, "Status 429" or "capacity" in its message
RateLimitFailure(c) ==
    c.kind = "error" /\ c.sdk /\ (c.status_code = 429 \/ c.status429 \/ c.capacity)
OtherFailure(c) == c.kind = "error" /\ ~RateLimitFailure(c)

RefinerStageOver == mode = "ViT" /\ pc \in {"cleanup", "done"}
RefinerExceptionNames == {"SDKError", "Exception"}

ExclusiveRuns(runs) == \A k \in 1..Len(runs) : ~(runs[k][2] /\ runs[k][3])
ExclusiveParagraphs(paragraphs) ==
    \A k \in 1..Len(paragraphs) : ExclusiveRuns(paragraphs[k].runs)

\* C1: when every refiner call ends in a rate-limit error, the refiner is
\* called exactly max_retries times, the sleeps are base_sleep, 2*base_sleep,
\* 4*base_sleep in this order, and the unrefined draft is what is cleaned and
\* rendered: no refiner exception leaves process_image_bytes_vit.
C1_RetryBackoffBound ==
    (RefinerStageOver /\ refinerCalls > 0 /\ rateLimited = refinerCalls) =>
        /\ refinerCalls = MaxRetries
        /\ sleeps = <<BaseSleep, 2 * BaseSleep, 4 * BaseSleep>>
        /\ refined_text = draft_text
        /\ outcome.raised \notin RefinerExceptionNames
        /\ (pc = "done" => cleaned = _final_cleanup(draft_text))

C1_Witness ==
    /\ pc = "done" /\ refinerCalls = MaxRetries /\ rateLimited = MaxRetries
    /\ outcome.raised = NoRaise /\ outcome.paragraphs # <<>>
    /\ cleaned # <<>>

\* C2: both renderers return runs or paragraphs for every input string,
\* without raising.
C2_RenderingNeverFails ==
    /\ out.op = "_add_parsed_line" => out.value.raised = NoRaise
    /\ out.op \in {"create_docx_bytes", "create_word_document"} =>
           out.value.raised = NoRaise

\* C3: the vision backend is called with the configured model first; only
\* when that call fails and the configured model is not pixtral-12b is it
\* called once more, with pixtral-12b; a vision failure that leaves the
\* request is that of a call with pixtral-12b; at most two calls are made.
C3_VisionFallback ==
    (mode = "ViT" /\ data = "bytes") =>
        /\ Len(visionCalls) <= 2
        /\ pc = "start" => visionCalls = <<>>
        /\ pc # "start" => visionCalls[1] = model
        /\ pc = "vit_fallback" => (Len(visionCalls) = 1 /\ model # "pixtral-12b")
        /\ Len(visionCalls) = 2 =>
               (model # "pixtral-12b" /\ visionCalls[2] = "pixtral-12b")
        /\ (pc = "done" /\ outcome.message = "Vision request failed") =>
               /\ visionCalls[Len(visionCalls)] = "pixtral-12b"
               /\ Len(visionCalls) = (IF model = "pixtral-12b" THEN 1 ELSE 2)

C3_Witness ==
    /\ pc = "done" /\ outcome.message = "Vision request failed"
    /\ visionCalls = <<"pixtral-large-latest", "pixtral-12b">>

\* C4: after a refiner call has failed with an error that is not a rate-limit
\* error, no refiner call and no sleep follows; the failing call itself is
\* not followed by a sleep and ends the refiner stage.
C4_NonRetryableEndsLoop ==
    [][ /\ OtherFailure(last_call) => (refinerCalls' = refinerCalls /\ sleeps' = sleeps)
        /\ (refinerCalls' # refinerCalls /\ OtherFailure(last_call')) =>
               (sleeps' = sleeps /\ pc' \in {"cleanup", "done"}) ]_vars

C4_Witness ==
    /\ pc = "done" /\ OtherFailure(last_call) /\ last_call.sdk
    /\ refinerCalls = MaxRetries /\ Len(sleeps) = MaxRetries - 1

\* C5: once a draft exists no refiner outcome makes the request raise a
\* refiner exception, and after any refiner failure the text that is cleaned
\* and rendered is the unrefined draft.
C5_RefinementNeverFatal ==
    /\ (mode = "ViT" /\ refinerCalls > 0) => outcome.raised \notin RefinerExceptionNames
    /\ (RefinerStageOver /\ last_call.kind = "error") =>
           /\ refined_text = draft_text
           /\ pc = "done" => cleaned = _final_cleanup(draft_text)

C5_Witness ==
    /\ pc = "done" /\ OtherFailure(last_call) /\ ~last_call.sdk
    /\ refined_text = draft_text /\ outcome.raised = NoRaise /\ cleaned # <<>>

\* C6: with an empty payload no backend is ever called, and either entry
\* point ends raising ChemistryOCRError("Empty image payload").
C6_EmptyPayload ==
    data = "empty" =>
        /\ visionCalls = <<>> /\ ocrCalls = 0 /\ refinerCalls = 0
        /\ pc \in {"start", "vit_fallback", "done"}
        /\ pc = "done" => (/\ outcome.raised = "ChemistryOCRError"
                           /\ outcome.message = "Empty image payload")

C6_Witness ==
    /\ data = "empty" /\ pc = "done" /\ mode = "ViT" /\ model = "pixtral-large-latest"
    /\ outcome.message = "Empty image payload"

\* C7: no run of latex_like_to_runs, _split_for_subscripts, _make_runs or
\* _add_parsed_line, nor of either rendered document, is both subscript and
\* superscript.
C7_SubSupExclusive ==
    /\ out.op \in {"latex_like_to_runs", "_split_for_subscripts", "_make_runs"} =>
           ExclusiveRuns(out.value)
    /\ out.op = "_add_parsed_line" => ExclusiveRuns(out.value.runs)
    /\ out.op \in {"create_docx_bytes", "create_word_document"} =>
           ExclusiveParagraphs(out.value.paragraphs)

C7_Witness ==
    /\ out.op = "_add_parsed_line"
    /\ \E k \in 1..Len(out.value.runs) : out.value.runs[k][2]
    /\ \E k \in 1..Len(out.value.runs) : out.value.runs[k][3]

\* C8: normalize_chem_spacing applied to its own output returns it unchanged.
C8_NormalizeIdempotent ==
    out.op = "normalize_chem_spacing twice" =>
        out.value = normalize_chem_spacing(input)

C8_Witness ==
    /\ out.op = "normalize_chem_spacing twice"
    /\ out.value # input /\ Len(out.value) >= 2
    /\ \E k \in 1..Len(out.value) : out.value[k] = " "

\* C9: while one request sleeps in its refiner backoff, every other request
\* that has not finished can take its next step.
C9_SleepDoesNotBlock ==
    \A r, q \in Requests :
        (r # q /\ hpc[r] = "sleeping" /\ hpc[q] # "done") => ENABLED HandlerStep(q)

\* a line read from index i on the way both writers read it alike.  prev is
\* the character before i in the stretch of unstyled text i stands in, or ""
\* where a stretch begins (at the start of the line and after styled content).
\*   a ^ or _ ends the line                        : not alike (C2)
\*   it is followed by a "{" that no "}" follows   : a literal marker in both
\*   it is followed by a closed brace group        : alike when the group is
\*                                                   not empty and holds no "{"
\*   it is followed by another character           : that character is styled,
\*       unless the baseline writer reads a number there (a digit, or for ^ a
\*       sign, with a digit behind it)
\*   any other character                           : unstyled, unless it is a
\*       digit after a letter or a closing bracket of the same stretch
RECURSIVE PlainMarkupFrom(_, _, _)
PlainMarkupFrom(line, i, prev) ==
    IF i >= Len(line) THEN TRUE
    ELSE IF At(line, i) \in {"^", "_"} THEN
        IF i + 1 >= Len(line) THEN FALSE
        ELSE IF At(line, i + 1) = "{" THEN
            LET closing == Find(line, <<"}">>, i + 2)
                inner == Slice(line, i + 2, closing)
            IN  IF closing = -1 THEN PlainMarkupFrom(line, i + 1, At(line, i))
                ELSE /\ inner # <<>>
                     /\ \A k \in 1..Len(inner) : inner[k] # "{"
                     /\ PlainMarkupFrom(line, closing + 1, "")
        ELSE LET next_is_digit == i + 2 < Len(line) /\ At(line, i + 2) \in Digits
             IN  /\ (At(line, i + 1) \in Digits
                        \/ (At(line, i) = "^" /\ At(line, i + 1) \in SignChars))
                      => ~next_is_digit
                 /\ PlainMarkupFrom(line, i + 2, "")
    ELSE /\ ~(At(line, i) \in isdigit /\ (prev \in isalpha \/ prev \in {")", "]", "}"}))
         /\ PlainMarkupFrom(line, i + 1, At(line, i))

\* one line of a text on which the two renderers agree
PlainMarkupLine(line) ==
    /\ line # <<>>
    /\ normalize_chem_spacing(line) = line
    /\ PlainMarkupFrom(line, 0, "")
\* a cleaned text (it holds no "$") whose lines are all such lines
PlainMarkupText(text) ==
    LET lines == Split(text, "\n")
    IN  /\ \A k \in 1..Len(text) : text[k] # "$"
        /\ \A k \in 1..Len(lines) : PlainMarkupLine(lines[k])

\* C10: for every cleaned text the orchestrator's rendering is the paragraphs
\* and runs create_word_document gives for it.
C10_SameAsWordDocument ==
    out.op = "create_docx_bytes" => out.value = create_word_document(input)

\* C10, on the texts both renderers read alike: the orchestrator's rendering
\* of a cleaned text is that of create_word_document when, and only when,
\* every line of the text is non-blank and unchanged by normalize_chem_spacing,
\* every ^ or _ that is not itself styled content is followed by one styled
\* character (not a number of several characters), by a brace group that is
\* not empty and holds no "{", or by a "{" that is never closed, and no
\* stretch of unstyled text holds a digit right after a letter or a closing
\* bracket.
C10_AgreeOnPlainMarkup ==
    out.op = "create_docx_bytes" =>
        (PlainMarkupText(input) <=> out.value = create_word_document(input))

\* two lines, the first with a styled run, rendered alike by both
C10_Witness ==
    /\ out.op = "create_docx_bytes" /\ PlainMarkupText(input)
    /\ Len(out.value.paragraphs) = 2
    /\ \E k \in 1..Len(out.value.paragraphs[1].runs) : out.value.paragraphs[1].runs[k][2]
    /\ out.value = create_word_document(input)

\* the text left by one scan of text that turns each backslash-n pair of text
\* into a newline and skips each '$'
RECURSIVE CleanedScan(_, _)
CleanedScan(text, i) ==
    IF i >= Len(text) THEN <<>>
    ELSE IF At(text, i) = "\\" /\ i + 1 < Len(text) /\ At(text, i + 1) = "n"
         THEN <<"\n">> \o CleanedScan(text, i + 2)
    ELSE IF At(text, i) = "$" THEN CleanedScan(text, i + 1)
    ELSE <<At(text, i)>> \o CleanedScan(text, i + 1)

RenderingReached == pc = "done" /\ outcome.raised # "ChemistryOCRError"

\* C11: on both paths the renderer is reached only with the cleaned text: the
\* recognized, refined or fallback text with each of its backslash-n pairs
\* turned into a newline and each '$' removed; before that nothing is rendered.
C11_CleanupBeforeRender ==
    /\ RenderingReached =>
           /\ cleaned = CleanedScan(refined_text, 0)
           /\ \A k \in 1..Len(cleaned) : cleaned[k] # "$"
           /\ outcome = create_docx_bytes(cleaned)
           /\ mode = "OCR" => refined_text = draft_text
    /\ ~RenderingReached => (cleaned = <<>> /\ outcome.paragraphs = <<>>)

C11_Witness ==
    /\ RenderingReached /\ outcome.raised = NoRaise
    /\ refined_text = <<"\\", "$", "n">>
    /\ cleaned = <<"\\", "n">>

StyledRun(r) == r[2] \/ r[3]

RECURSIVE RunTexts(_)
RunTexts(runs) == IF runs = <<>> THEN <<>> ELSE Head(runs)[1] \o RunTexts(Tail(runs))

\* final_runs holds every styled run of base_runs as it is, in order, and
\* between them runs without superscript that spell the unstyled runs
RECURSIVE PassedThrough(_, _)
PassedThrough(base_runs, final_runs) ==
    IF base_runs = <<>> THEN final_runs = <<>>
    ELSE IF StyledRun(Head(base_runs))
    THEN /\ final_runs # <<>>
         /\ Head(final_runs) = Head(base_runs)
         /\ PassedThrough(Tail(base_runs), Tail(final_runs))
    ELSE \E k \in 0..Len(final_runs) :
           /\ \A j \in 1..k : ~final_runs[j][3]
           /\ RunTexts(SubSeq(final_runs, 1, k)) = Head(base_runs)[1]
           /\ PassedThrough(Tail(base_runs), SubSeq(final_runs, k + 1, Len(final_runs)))

\* C12: every styled run of the explicit ^/_ scan is in the output of
\* _make_runs with its text and style unchanged, never split by the bare-digit
\* inference; "N^{2+}" gives the runs ("N", plain), ("2+", superscript).
C12_ExplicitMarkupWins ==
    out.op = "_make_runs" =>
        /\ PassedThrough(latex_like_to_runs(normalize_chem_spacing(input)), out.value)
        /\ input = <<"N", "^", "{", "2", "+", "}">> =>
               out.value = << <<<<"N">>, FALSE, FALSE>>, <<<<"2", "+">>, FALSE, TRUE>> >>

\* a superscript group holding a digit after a letter stays one run
C12_Witness ==
    /\ out.op = "_make_runs"
    /\ input = <<"a", "^", "{", "a", "2", "}">>
    /\ out.value = << <<<<"a">>, FALSE, FALSE>>, <<<<"a", "2">>, FALSE, TRUE>> >>

NoMarkup(text) == \A k \in 1..Len(text) : text[k] \notin {"^", "_"}

\* position i of text holds a digit right after a letter or a closing bracket
DigitAfterLetterOrBracket(text, i) ==
    /\ i > 0 /\ i < Len(text)
    /\ At(text, i) \in isdigit
    /\ At(text, i - 1) \in isalpha \cup {")", "]", "}"}

\* offset in the text of run k of runs
RunStart(runs, k) == Len(RunTexts(SubSeq(runs, 1, k - 1)))

\* runs are the bare-digit reading of text: they spell text in order, none is
\* empty or superscript, a subscript run is a maximal group of digits that
\* starts right after a letter or closing bracket, an unstyled run holds no
\* digit that follows a letter or closing bracket, and no two unstyled runs
\* are neighbours
InferredRuns(text, runs) ==
    /\ RunTexts(runs) = text
    /\ \A k \in 1..Len(runs) :
         LET a == RunStart(runs, k)
             b == a + Len(runs[k][1])
         IN  /\ runs[k][1] # <<>>
             /\ ~runs[k][3]
             /\ IF runs[k][2]
                THEN /\ \A i \in a..(b - 1) : At(text, i) \in isdigit
                     /\ DigitAfterLetterOrBracket(text, a)
                     /\ b < Len(text) => At(text, b) \notin isdigit
                ELSE /\ \A i \in a..(b - 1) : ~DigitAfterLetterOrBracket(text, i)
                     /\ k < Len(runs) => runs[k + 1][2]

\* C13: on a text without ^ and _ the runs of _split_for_subscripts, and those
\* of _make_runs on the normalized text, are its bare-digit reading; "H2O"
\* gives ("H", plain), ("2", subscript), ("O", plain).
C13_BareDigitInference ==
    /\ (out.op = "_split_for_subscripts" /\ NoMarkup(input)) =>
           InferredRuns(input, out.value)
    /\ (out.op = "_make_runs" /\ NoMarkup(input)) =>
           InferredRuns(normalize_chem_spacing(input), out.value)
    /\ (out.op \in {"_split_for_subscripts", "_make_runs"} /\ input = <<"H", "2", "O">>) =>
           out.value = << <<<<"H">>, FALSE, FALSE>>, <<<<"2">>, TRUE, FALSE>>,
                          <<<<"O">>, FALSE, FALSE>> >>

\* two digits after a letter grouped in one subscript run, one after a bracket
C13_Witness ==
    /\ out.op = "_split_for_subscripts"
    /\ input = <<"a", "2", "2", "}">>
    /\ out.value = << <<<<"a">>, FALSE, FALSE>>, <<<<"2", "2">>, TRUE, FALSE>>,
                      <<<<"}">>, FALSE, FALSE>> >>

\* the letters and digits of text that are in no backslash command, in order:
\* a command is a backslash pair, or a backslash with the letters after it
\* and one "*"
RECURSIVE LiteralContent(_, _)
LiteralContent(text, i) ==
    IF i >= Len(text) THEN <<>>
    ELSE IF At(text, i) = "\\" THEN
      IF i + 1 < Len(text) /\ At(text, i + 1) = "\\" THEN LiteralContent(text, i + 2)
      ELSE LET j == i + 1 + SpanLen(text, i + 1, Letters)
               k == IF j > i + 1 /\ j < Len(text) /\ At(text, j) = "*" THEN j + 1 ELSE j
           IN  LiteralContent(text, k)
    ELSE IF At(text, i) \in Letters \cup Digits
         THEN <<At(text, i)>> \o LiteralContent(text, i + 1)
    ELSE LiteralContent(text, i + 1)

\* a is b with some elements left out
RECURSIVE IsSubsequence(_, _)
IsSubsequence(a, b) ==
    IF a = <<>> THEN TRUE
    ELSE IF b = <<>> THEN FALSE
    ELSE IF Head(a) = Head(b) THEN IsSubsequence(Tail(a), Tail(b))
    ELSE IsSubsequence(a, Tail(b))

\* C14: every letter and digit of the input of convert_latex_to_simple that
\* is not part of a backslash command is in its output, in order.
C14_NeverDropTokens ==
    out.op = "convert_latex_to_simple" =>
        IsSubsequence(LiteralContent(input, 0), out.value)

RECURSIVE SegmentContents(_)
SegmentContents(segments) ==
    IF segments = <<>> THEN <<>> ELSE Head(segments)[2] \o SegmentContents(Tail(segments))

Without(s, chars) == SelectSeq(s, LAMBDA c : c \notin chars)

\* every $$ of text from i on is closed by a later $$ and every other $ by a
\* later $
RECURSIVE Terminated(_, _)
Terminated(text, i) ==
    IF i >= Len(text) THEN TRUE
    ELSE IF At(text, i) # "$" THEN Terminated(text, i + 1)
    ELSE IF i + 1 < Len(text) /\ At(text, i + 1) = "$"
    THEN LET close == Find(text, <<"$", "$">>, i + 2)
         IN  close # -1 /\ Terminated(text, close + 2)
    ELSE LET close == Find(text, <<"$">>, i + 1)
         IN  close # -1 /\ Terminated(text, close + 1)

\* text holds something convert_latex_to_simple rewrites: a backslash, a
\* brace, an ampersand or one of the arrows ->, <->, <=>
ConverterSyntax(text) ==
    \/ \E k \in 1..Len(text) : text[k] \in {"\\", "{", "}", "&"}
    \/ \E i \in Idx(text) : \/ StartsAt(text, i, <<"-", ">">>)
                            \/ StartsAt(text, i, <<"<", "-", ">">>)
                            \/ StartsAt(text, i, <<"<", "=", ">">>)

\* C15: for an input whose delimiters are all terminated, the contents of the
\* segments of parse_content, concatenated, are the characters of the input
\* other than '$'.
C15_SegmenterRoundTrip ==
    (out.op = "parse_content" /\ Terminated(input, 0)) =>
        Without(SegmentContents(out.value), {"$"}) = Without(input, {"$"})

\* C15, whitespace aside: for an input whose delimiters are all terminated
\* and that holds nothing convert_latex_to_simple rewrites, the contents of
\* the segments, concatenated, are the characters of the input other than '$'
\* and whitespace, in order.
C15_RoundTripButWhitespace ==
    (out.op = "parse_content" /\ Terminated(input, 0) /\ ~ConverterSyntax(input)) =>
        Without(SegmentContents(out.value), {"$"} \cup Whitespace)
            = Without(input, {"$"} \cup Whitespace)

\* an inline formula kept, the blank text after it dropped
C15_Witness ==
    /\ out.op = "parse_content"
    /\ input = <<"$", "a", "$", " ">>
    /\ Terminated(input, 0) /\ ~ConverterSyntax(input)
    /\ out.value = << <<"inline_formula", <<"a">>>> >>

\* C16: every segment parse_content returns has a content that is not empty,
\* and every text segment a character that is not whitespace.
C16_NoEmptySegment ==
    out.op = "parse_content" =>
        \A k \in 1..Len(out.value) :
            /\ out.value[k][2] # <<>>
            /\ out.value[k][1] = "text" =>
                   \E j \in 1..Len(out.value[k][2]) : out.value[k][2][j] \notin Whitespace

BlankLine(line) == \A k \in 1..Len(line) : line[k] \in Whitespace

\* the groups of neighbouring non-blank lines: as many as there are non-blank
\* lines that come first or right after a blank line
LineGroups(lines) ==
    Cardinality({k \in 1..Len(lines) :
                    ~BlankLine(lines[k]) /\ (k = 1 \/ BlankLine(lines[k - 1]))})

\* C17: in a text without formulas create_word_document starts a paragraph
\* exactly at the first line and after each blank line: neighbouring non-blank
\* lines share a paragraph.
C17_ParagraphsAtBlankLines ==
    (out.op = "create_word_document" /\ \A k \in 1..Len(input) : input[k] # "$") =>
        Len(out.value.paragraphs) = LineGroups(Split(input, "\n"))

\* the parts of a document with one block: what precedes the first $$, the
\* body up to the next $$, and what follows
BlockOpen == Find(input, <<"$", "$">>, 0)
BlockClose == Find(input, <<"$", "$">>, BlockOpen + 2)
BeforeBlock == Slice(input, 0, BlockOpen)
BlockBody == Slice(input, BlockOpen + 2, BlockClose)
AfterBlock == Slice(input, BlockClose + 2, Len(input))

\* the pieces of body between its backslash pairs and its line ends, read
\* left to right
RECURSIVE BreakPieces(_, _, _)
BreakPieces(body, i, piece) ==
    IF i >= Len(body) THEN <<piece>>
    ELSE IF At(body, i) = "\\" /\ i + 1 < Len(body) /\ At(body, i + 1) = "\\"
         THEN <<piece>> \o BreakPieces(body, i + 2, <<>>)
    ELSE IF At(body, i) = "\n" THEN <<piece>> \o BreakPieces(body, i + 1, <<>>)
    ELSE BreakPieces(body, i + 1, Append(piece, At(body, i)))

\* the lines of a body: its non-blank pieces
BodyLines == SelectSeq(BreakPieces(BlockBody, 0, <<>>), LAMBDA l : ~BlankLine(l))
\* a body whose only LaTeX is the line break: outside its backslash pairs it
\* holds no backslash, no brace, no "&" and no ">", so that no pass of
\* convert_latex_to_simple but the one for line breaks has anything to rewrite
\* in its lines
OnlyLineBreaks ==
    \A k \in 1..Len(BreakPieces(BlockBody, 0, <<>>)) :
        \A j \in 1..Len(BreakPieces(BlockBody, 0, <<>>)[k]) :
            BreakPieces(BlockBody, 0, <<>>)[k][j] \notin {"\\", "{", "}", "&", ">"}

\* one centered paragraph for each line, holding the runs of the line
CenteredParagraphs(lines) ==
    [k \in 1..Len(lines) |-> [alignment |-> "CENTER", runs |-> _make_runs(lines[k])]]

\* C18: a $$...$$ body is split at its backslash pairs into one block_formula
\* segment for each non-blank line, and create_word_document gives each its
\* own centered paragraph with all its runs, after the paragraphs of what
\* precedes the block and before fresh paragraphs for what follows it (a
\* body without a non-blank line gives no segment and no paragraph).
C18_BlockLinesCentered ==
    OnlyLineBreaks =>
        /\ out.op = "parse_content" =>
               LET blocks == SelectSeq(out.value, LAMBDA g : g[1] = "block_formula")
               IN  /\ Len(blocks) = Len(BodyLines)
                   /\ \A k \in 1..Len(blocks) :
                          Without(blocks[k][2], Whitespace) = Without(BodyLines[k], Whitespace)
        /\ (out.op = "create_word_document" /\ BodyLines # <<>>) =>
               out.value.paragraphs =
                   create_word_document(BeforeBlock).paragraphs
                       \o CenteredParagraphs(BodyLines)
                       \o create_word_document(AfterBlock).paragraphs

\* index of the first ^ or _ of text from i on, or -1
RECURSIVE FirstMarker(_, _)
FirstMarker(text, i) ==
    IF i >= Len(text) THEN -1
    ELSE IF At(text, i) \in {"^", "_"} THEN i
    ELSE FirstMarker(text, i + 1)

\* index of the brace that closes the one at i, counting depth, or -1
RECURSIVE ClosingBrace(_, _, _)
ClosingBrace(text, i, depth) ==
    IF i >= Len(text) THEN -1
    ELSE IF At(text, i) = "{" THEN ClosingBrace(text, i + 1, depth + 1)
    ELSE IF At(text, i) = "}" THEN
           (IF depth = 1 THEN i ELSE ClosingBrace(text, i + 1, depth - 1))
    ELSE ClosingBrace(text, i + 1, depth)

\* runs read the first marker of text as the claim has it, when a "{" follows
\* it: a styled run with everything up to the matching brace (after one
\* unstyled run for what precedes the marker), or, no brace matching, the
\* marker and the "{" as literal text
BraceGroupRead(text, runs) ==
    LET i == FirstMarker(text, 0)
        prefix == Slice(text, 0, i)
        j == ClosingBrace(text, i + 1, 0)
        k == IF prefix = <<>> THEN 1 ELSE 2
    IN  (i # -1 /\ i + 1 < Len(text) /\ At(text, i + 1) = "{") =>
            IF j = -1
            THEN /\ runs # <<>>
                 /\ ~StyledRun(runs[1])
                 /\ StartsWith(runs[1][1], prefix \o <<At(text, i), "{">>)
            ELSE j > i + 2 =>
                 /\ Len(runs) >= k
                 /\ k = 2 => runs[1] = <<prefix, FALSE, FALSE>>
                 /\ runs[k] = <<Slice(text, i + 2, j), At(text, i) = "_", At(text, i) = "^">>

\* C19: where "{" follows ^ or _, latex_like_to_runs and _add_parsed_line
\* style everything up to the brace that matches by depth, and with no such
\* brace emit the marker as literal text and go on from the "{".
C19_DepthMatchedBraces ==
    /\ out.op = "latex_like_to_runs" => BraceGroupRead(input, out.value)
    /\ (out.op = "_add_parsed_line" /\ out.value.raised = NoRaise) =>
           BraceGroupRead(input, out.value.runs)

\* what the claim has styled after the marker at i of text when no "{"
\* follows it: for ^ an optional sign and the digits after it, for _ the
\* digits, and where there are no such digits the one character that follows
StyledContent(text, i) ==
    LET sign == IF At(text, i) = "^" /\ At(text, i + 1) \in SignChars THEN 1 ELSE 0
        digits == SpanLen(text, i + 1 + sign, Digits)
    IN  IF digits >= 1 THEN Slice(text, i + 1, i + 1 + sign + digits)
        ELSE Slice(text, i + 1, i + 2)

\* runs read the first marker of text as the claim has it, when a character
\* other than "{" follows it
UnbracedRead(text, runs) ==
    LET i == FirstMarker(text, 0)
        prefix == Slice(text, 0, i)
        k == IF prefix = <<>> THEN 1 ELSE 2
    IN  (i # -1 /\ i + 1 < Len(text) /\ At(text, i + 1) # "{") =>
            /\ Len(runs) >= k
            /\ k = 2 => runs[1] = <<prefix, FALSE, FALSE>>
            /\ runs[k] = <<StyledContent(text, i), At(text, i) = "_", At(text, i) = "^">>

\* C20: where no "{" follows ^ or _, latex_like_to_runs and _add_parsed_line
\* style, after ^, an optional sign with the whole run of digits after it,
\* after _, the whole run of digits, and otherwise the one next character.
C20_SignedDigitRuns ==
    /\ out.op = "latex_like_to_runs" => UnbracedRead(input, out.value)
    /\ (out.op = "_add_parsed_line" /\ out.value.raised = NoRaise) =>
           UnbracedRead(input, out.value.runs)

\* the style of a run: normal, subscript or superscript
RunStyle(r) == <<r[2], r[3]>>

\* every boundary between two runs of the sequence is a change of style
StyleChangesAtEveryBoundary(runs) ==
    \A k \in 1..(Len(runs) - 1) : RunStyle(runs[k]) # RunStyle(runs[k + 1])

\* C21: in the runs returned by _make_runs no two consecutive runs have the
\* same style: every run is a maximal span of one style.
C21_RunsMaximal ==
    out.op = "_make_runs" => StyleChangesAtEveryBoundary(out.value)

\* runs account for text from index i to its end: each unstyled run and each
\* inferred subscript run is the next characters of text as they stand, and
\* each other styled run is the next characters of text less the marker of its
\* style before it, or less that marker, a "{" before it and a "}" after it
RECURSIVE AccountsFor(_, _, _)
AccountsFor(text, i, runs) ==
    IF runs = <<>> THEN i = Len(text)
    ELSE
      LET r == Head(runs)
          t == r[1]
          marker == IF r[2] THEN "_" ELSE "^"
          kept == /\ t # <<>>
                  /\ StartsAt(text, i, t)
                  /\ AccountsFor(text, i + Len(t), Tail(runs))
          unbraced == /\ Len(t) = 1
                      /\ i + 1 < Len(text)
                      /\ At(text, i) = marker
                      /\ At(text, i + 1) = t[1]
                      /\ AccountsFor(text, i + 2, Tail(runs))
          braced == /\ i + 2 + Len(t) < Len(text)
                    /\ At(text, i) = marker
                    /\ At(text, i + 1) = "{"
                    /\ StartsAt(text, i + 2, t)
                    /\ At(text, i + 2 + Len(t)) = "}"
                    /\ AccountsFor(text, i + 3 + Len(t), Tail(runs))
      IN  IF ~StyledRun(r) THEN kept
          ELSE unbraced \/ braced \/ (r[2] /\ kept)

\* C22: the texts of the runs of _make_runs, in order, are the normalized
\* input less the consumed markup only (the ^ or _ of each styled run and the
\* braces around braced content), nothing else dropped, doubled or moved, and
\* the scan ends: it returns for every input, with no more runs than the
\* normalized input has characters.
C22_TokenConservation ==
    /\ tpc = "start" =>
           Len(_make_runs(input)) <= Len(normalize_chem_spacing(input))
    /\ out.op = "_make_runs" =>
           /\ AccountsFor(normalize_chem_spacing(input), 0, out.value)
           /\ IsSubsequence(RunTexts(out.value), normalize_chem_spacing(input))
           /\ Len(out.value) <= Len(normalize_chem_spacing(input))

C22_Witness ==
    /\ out.op = "_make_runs"
    /\ input = <<"^", "{", "_", "}">>
    /\ out.value = << <<<<"_">>, FALSE, TRUE>> >>

\* text holds a backslash with an "n" right after it
HasEscapedNewline(text) ==
    \E k \in 1..(Len(text) - 1) : text[k] = "\\" /\ text[k + 1] = "n"

\* C23: the text _final_cleanup returns is fully cleaned: it holds no '$' and
\* no backslash-n pair, and cleaning it again leaves it as it is.
C23_CleanupIdempotent ==
    RenderingReached =>
        /\ \A k \in 1..Len(cleaned) : cleaned[k] # "$"
        /\ ~HasEscapedNewline(cleaned)
        /\ _final_cleanup(cleaned) = cleaned

====
